---- MODULE Spec2Model ----
(***************************************************************************)
(* A model of the bonjorno daily-notes plugin: the date codec              *)
(* (DateService), the note index / cache and the note lifecycle            *)
(* (DailyNotesManager) on top of an Obsidian-like vault.                   *)
(*                                                                         *)
(* Strings are sequences of one-character strings, so that the code's      *)
(* string operations (regex test, replace, split, padStart, parseInt and   *)
(* the lexicographic <=) are computed, not assumed.  A Date is <<n>>, n the *)
(* number of its calendar day (days since 1970-01-01, local time), and the *)
(* null Date is << >>; the time of day plays no role in the code modelled. *)
(***************************************************************************)
EXTENDS Integers, Sequences, FiniteSets, TLC

(***************************************************************************)
(* Characters and strings                                                  *)
(***************************************************************************)

\* UTF-16 code units of the characters that occur in the model; JavaScript
\* compares strings with <= code unit by code unit.
Ord ==
  [c \in {"-", ".", "0", "1", "2", "3", "4", "5", "6", "7", "8", "9",
          "d", "e", "m", "n", "o", "s", "t", "x"} |->
     CASE c = "-" -> 45 [] c = "." -> 46
       [] c = "0" -> 48 [] c = "1" -> 49 [] c = "2" -> 50 [] c = "3" -> 51
       [] c = "4" -> 52 [] c = "5" -> 53 [] c = "6" -> 54 [] c = "7" -> 55
       [] c = "8" -> 56 [] c = "9" -> 57
       [] c = "d" -> 100 [] c = "e" -> 101 [] c = "m" -> 109 [] c = "n" -> 110
       [] c = "o" -> 111 [] c = "s" -> 115 [] c = "t" -> 116 [] c = "x" -> 120]

DigitChars == <<"0", "1", "2", "3", "4", "5", "6", "7", "8", "9">>

IsDigit(c) == Ord[c] >= Ord["0"] /\ Ord[c] <= Ord["9"]

DigitVal(c) == Ord[c] - Ord["0"]

\* a <= b on JavaScript strings
LexLeq(a, b) ==
  LET n == IF Len(a) < Len(b) THEN Len(a) ELSE Len(b)
      diff == {i \in 1..n : a[i] # b[i]}
  IN  IF diff = {}
        THEN Len(a) <= Len(b)
        ELSE LET i == CHOOSE j \in diff : \A k \in diff : j <= k
             IN  Ord[a[i]] < Ord[b[i]]

\* String(n) for an integer n >= 0
RECURSIVE NumToString(_)
NumToString(n) ==
  IF n < 10 THEN <<DigitChars[n + 1]>>
            ELSE NumToString(n \div 10) \o <<DigitChars[(n % 10) + 1]>>

\* s.padStart(len, ch)
RECURSIVE PadStart(_, _, _)
PadStart(s, len, ch) ==
  IF Len(s) >= len THEN s ELSE PadStart(<<ch>> \o s, len, ch)

\* s.replace(pat, ""): the first occurrence of pat is removed
ReplaceFirst(s, pat) ==
  LET hits == {i \in 1..(Len(s) - Len(pat) + 1) :
                 SubSeq(s, i, i + Len(pat) - 1) = pat}
  IN  IF hits = {} THEN s
      ELSE LET i == CHOOSE j \in hits : \A k \in hits : j <= k
           IN  SubSeq(s, 1, i - 1) \o SubSeq(s, i + Len(pat), Len(s))

\* s.split("-")
RECURSIVE SplitDash(_)
SplitDash(s) ==
  LET dashes == {i \in 1..Len(s) : s[i] = "-"}
  IN  IF dashes = {} THEN <<s>>
      ELSE LET i == CHOOSE j \in dashes : \A k \in dashes : j <= k
           IN  <<SubSeq(s, 1, i - 1)>> \o SplitDash(SubSeq(s, i + 1, Len(s)))

\* parseInt(s, 10) for a string without sign or blanks: the value of the
\* leading digits, NaN when there is none
RECURSIVE ParseIntFrom(_, _, _)
ParseIntFrom(s, i, acc) ==
  IF i > Len(s) \/ ~IsDigit(s[i]) THEN acc
  ELSE ParseIntFrom(s, i + 1, acc * 10 + DigitVal(s[i]))

ParseInt(s) ==
  IF Len(s) = 0 \/ ~IsDigit(s[1])
    THEN [nan |-> TRUE, val |-> 0]
    ELSE [nan |-> FALSE, val |-> ParseIntFrom(s, 1, 0)]

isNaN(x) == x.nan

(***************************************************************************)
(* Constants of the plugin                                                 *)
(***************************************************************************)

NOTE_FILE_EXTENSION == <<".", "m", "d">>

DEFAULT_NOTE_TEMPLATE == ""

\* /^\d{4}-\d{2}-\d{2}\.md$/.test(s)
DAILY_NOTE_FILENAME_REGEX(s) ==
  /\ Len(s) = 13
  /\ \A i \in {1, 2, 3, 4, 6, 7, 9, 10} : IsDigit(s[i])
  /\ s[5] = "-" /\ s[8] = "-"
  /\ s[11] = "." /\ s[12] = "m" /\ s[13] = "d"

FRESHNESS_MS == 5000

(***************************************************************************)
(* JavaScript Date, reduced to the calendar day                            *)
(***************************************************************************)

\* day number of the proleptic Gregorian date y-m-d (m in 1..12, d >= 1;
\* a day past the end of the month runs on into the next month, as in
\* new Date(y, m - 1, d))
DaysFromCivil(y, m, d) ==
  LET yy  == IF m <= 2 THEN y - 1 ELSE y
      era == yy \div 400
      yoe == yy - era * 400
      mp  == IF m > 2 THEN m - 3 ELSE m + 9
      doy == (153 * mp + 2) \div 5 + d - 1
      doe == yoe * 365 + yoe \div 4 - yoe \div 100 + doy
  IN  era * 146097 + doe - 719468

CivilFromDays(z) ==
  LET zz  == z + 719468
      era == zz \div 146097
      doe == zz - era * 146097
      yoe == (doe - doe \div 1460 + doe \div 36524 - doe \div 146096) \div 365
      doy == doe - (365 * yoe + yoe \div 4 - yoe \div 100)
      mp  == (5 * doy + 2) \div 153
      d   == doy - (153 * mp + 2) \div 5 + 1
      m   == IF mp < 10 THEN mp + 3 ELSE mp - 9
      y   == yoe + era * 400 + (IF m <= 2 THEN 1 ELSE 0)
  IN  [year |-> y, month |-> m, day |-> d]

\* new Date(year, month, day) with a 0-indexed month
NewDate(year, month, day) == <<DaysFromCivil(year, month + 1, 1) + day - 1>>

getTime(date) == date[1]
getFullYear(date) == CivilFromDays(getTime(date)).year
getMonth(date) == CivilFromDays(getTime(date)).month - 1
getDate(date) == CivilFromDays(getTime(date)).day

(***************************************************************************)
(* DateService                                                             *)
(***************************************************************************)

formatDateToFileName(date) ==
  LET year  == NumToString(getFullYear(date))
      month == PadStart(NumToString(getMonth(date) + 1), 2, "0")
      day   == PadStart(NumToString(getDate(date)), 2, "0")
  IN  year \o <<"-">> \o month \o <<"-">> \o day

\* generateFilename without the extension
generateFilenameBare(date) == formatDateToFileName(date)

generateFilename(date) == formatDateToFileName(date) \o NOTE_FILE_EXTENSION

\* the suffix chosen from the last digit alone
getOrdinalSuffixByLastDigit(day) ==
  CASE day % 10 = 1 -> <<"s", "t">>
    [] day % 10 = 2 -> <<"n", "d">>
    [] day % 10 = 3 -> <<"r", "d">>
    [] OTHER -> <<"t", "h">>

getOrdinalSuffix(day) ==
  IF day > 3 /\ day < 21 THEN <<"t", "h">>
  ELSE CASE day % 10 = 1 -> <<"s", "t">>
         [] day % 10 = 2 -> <<"n", "d">>
         [] day % 10 = 3 -> <<"r", "d">>
         [] OTHER -> <<"t", "h">>

\* new Date(): the day the model runs on, 2026-01-14
Today == NewDate(2026, 0, 14)

DayOffset(date, k) == <<getTime(date) + k>>

\* date.setDate(dayOfMonth): the day dayOfMonth of date's month, days below
\* 1 and beyond the month's end counted into the neighbouring months
setDate(date, dayOfMonth) ==
  NewDate(getFullYear(date), getMonth(date), dayOfMonth)

\* the dates counted forward from startDate
getDatesRangeForward(startDate, count) ==
  [k \in 1..count |-> setDate(startDate, getDate(startDate) + (k - 1))]

\* the k-th element is the date pushed in the loop's round i = k - 1
getDatesRange(startDate, count) ==
  [k \in 1..count |-> setDate(startDate, getDate(startDate) - (k - 1))]

\* the cursor dates passed to loadNotes
CursorDates == {DayOffset(Today, -1), Today, DayOffset(Today, 1)}

\* formatDateToFileName tabulated over the dates of the model
FormattedDates == [date \in CursorDates |-> formatDateToFileName(date)]

Formatted(date) ==
  IF date \in CursorDates THEN FormattedDates[date]
  ELSE formatDateToFileName(date)

Null == << >>

\* the Date built is returned without the check that it is the day asked for
ParsedDateUnchecked(date, year, month, day) == date

\* the check that the Date built is the day asked for (February 30 rolls
\* over into March and is rejected)
ParsedDate(date, year, month, day) ==
  IF \/ getFullYear(date) # year
     \/ getMonth(date) # month
     \/ getDate(date) # day THEN Null
  ELSE date

\* the range checks on year, 0-indexed month and day, then new Date
ParsedNumbers(year, month, day) ==
  IF year < 1900 \/ year > 2100 THEN Null
  ELSE IF month < 0 \/ month > 11 THEN Null
  ELSE IF day < 1 \/ day > 31 THEN Null
  ELSE ParsedDate(NewDate(year, month, day), year, month, day)

ParsedInts(py, pm, pd) ==
  IF isNaN(py) \/ isNaN(pm) \/ isNaN(pd) THEN Null
  ELSE ParsedNumbers(py.val, pm.val - 1, pd.val)

ParsedParts(parts) ==
  IF Len(parts) # 3 THEN Null
  ELSE ParsedInts(ParseInt(parts[1]), ParseInt(parts[2]), ParseInt(parts[3]))

parseDateFromFilename(filename) ==
  IF ~DAILY_NOTE_FILENAME_REGEX(filename) THEN Null
  ELSE ParsedParts(SplitDash(ReplaceFirst(filename, NOTE_FILE_EXTENSION)))

\* the strings of the model: the date-strings and file names used as inputs
S10 == <<"2", "0", "2", "6", "-", "0", "1", "-", "1", "0">>
S14 == <<"2", "0", "2", "6", "-", "0", "1", "-", "1", "4">>
S15 == <<"2", "0", "2", "6", "-", "0", "1", "-", "1", "5">>
SFeb30 == <<"2", "0", "2", "6", "-", "0", "2", "-", "3", "0">>
SNotes == <<"n", "o", "t", "e", "s">>
MdExt == <<".", "m", "d">>
TxtExt == <<".", "t", "x", "t">>

\* the date-strings a consumer passes that are canonical dates
ValidArgs == {S10, S14, S15}

\* the strings a consumer may pass as a date-string
AnyArgs == ValidArgs \cup {SFeb30, SNotes}

FileNames == {s \o MdExt : s \in AnyArgs} \cup {S10 \o TxtExt}

\* parseDateFromFilename tabulated over the file names of the model (the
\* model checker evaluates the table once)
ParsedFileNames == [filename \in FileNames |-> parseDateFromFilename(filename)]

Parsed(filename) ==
  IF filename \in FileNames THEN ParsedFileNames[filename]
  ELSE parseDateFromFilename(filename)

\* the file name is matched against the pattern only
isValidDailyNoteFilenameByPattern(filename) == DAILY_NOTE_FILENAME_REGEX(filename)

isValidDailyNoteFilename(filename) ==
  IF ~DAILY_NOTE_FILENAME_REGEX(filename) THEN FALSE
  ELSE Parsed(filename) # Null

parseDateString(dateString) == Parsed(dateString \o NOTE_FILE_EXTENSION)

\* d1 - d2 in days (the code's difference in milliseconds has the same sign)
compareDates(date1, date2) == getTime(date1) - getTime(date2)

\* a comparator with the dates compared the other way round
CompareParsedAscending(dateA, dateB) ==
  IF dateA = Null \/ dateB = Null THEN 0 ELSE compareDates(dateA, dateB)

\* the comparator of sortDateStringsDesc
CompareParsed(dateA, dateB) ==
  IF dateA = Null \/ dateB = Null THEN 0 ELSE compareDates(dateB, dateA)

SortCompare(a, b) == CompareParsed(parseDateString(a), parseDateString(b))

\* Array.prototype.sort with a comparator, for the short arrays of the
\* model: a stable insertion sort
RECURSIVE InsertSorted(_, _)
InsertSorted(sorted, x) ==
  IF sorted = << >> THEN <<x>>
  ELSE IF SortCompare(sorted[Len(sorted)], x) <= 0 THEN Append(sorted, x)
  ELSE Append(InsertSorted(SubSeq(sorted, 1, Len(sorted) - 1), x),
              sorted[Len(sorted)])

RECURSIVE SortFrom(_, _, _)
SortFrom(s, i, acc) ==
  IF i > Len(s) THEN acc ELSE SortFrom(s, i + 1, InsertSorted(acc, s[i]))

sortDateStringsDesc(dateStrings) == SortFrom(dateStrings, 1, << >>)

(***************************************************************************)
(* The vault (the Obsidian file tree the manager works on)                 *)
(***************************************************************************)

\* the directories the setting dailyNotesPath may name
Dirs == {"daily-notes", "journal"}

\* at most MaxFiles entries exist in the modelled directories at a time
MaxFiles == 2

\* the clock advances MaxTicks times at most
MaxTicks == 2

\* loadNotes is called with a count of 1..MaxCount
MaxCount == 2

\* a TFile: the vault reads, writes and deletes it by its path
NoFile == [dir |-> "", name |-> << >>]

TFile(dir, name) == [dir |-> dir, name |-> name]

\* index of the child called name in a folder's children, 0 when absent
ChildIndex(children, name) ==
  LET hits == {i \in 1..Len(children) : children[i].name = name}
  IN  IF hits = {} THEN 0 ELSE CHOOSE i \in hits : TRUE

\* vault.getAbstractFileByPath(dir + "/" + name): "file", "folder" or "none"
AbstractFileAt(v, dir, name) ==
  IF dir \notin Dirs \/ v[dir].kind # "folder" THEN "none"
  ELSE LET i == ChildIndex(v[dir].children, name)
       IN  IF i = 0 THEN "none"
           ELSE IF v[dir].children[i].isFile THEN "file" ELSE "folder"

\* TFile.extension: the part of the name after its last dot
Extension(name) ==
  LET dots == {i \in 1..Len(name) : name[i] = "."}
  IN  IF dots = {} THEN << >>
      ELSE LET i == CHOOSE j \in dots : \A k \in dots : k <= j
           IN  SubSeq(name, i + 1, Len(name))

RemoveAt(seq, i) == SubSeq(seq, 1, i - 1) \o SubSeq(seq, i + 1, Len(seq))

RECURSIVE SumChildren(_, _)
SumChildren(v, ds) ==
  IF ds = {} THEN 0
  ELSE LET d == CHOOSE x \in ds : TRUE
       IN  Len(v[d].children) + SumChildren(v, ds \ {d})

\* the number of entries in the modelled directories
TotalFiles(v) == SumChildren(v, Dirs)

(***************************************************************************)
(* cachedFileList: a JavaScript Map, which keeps its keys in insertion     *)
(* order (set on a present key keeps the key's place)                      *)
(***************************************************************************)

MapIndex(map, key) ==
  LET hits == {i \in 1..Len(map) : map[i].key = key}
  IN  IF hits = {} THEN 0 ELSE CHOOSE i \in hits : TRUE

MapHas(map, key) == MapIndex(map, key) # 0

MapGet(map, key) ==
  IF MapHas(map, key) THEN map[MapIndex(map, key)].file ELSE NoFile

MapSet(map, key, file) ==
  IF MapHas(map, key)
    THEN [map EXCEPT ![MapIndex(map, key)] = [key |-> key, file |-> file]]
    ELSE Append(map, [key |-> key, file |-> file])

MapDelete(map, key) ==
  IF MapHas(map, key) THEN RemoveAt(map, MapIndex(map, key)) ELSE map

\* Array.from(map.keys())
MapKeys(map) == [i \in 1..Len(map) |-> map[i].key]

Includes(seq, x) == \E i \in 1..Len(seq) : seq[i] = x

(***************************************************************************)
(* DailyNotesManager.  Each method is an operator on the world             *)
(*   w = [vault, path (settings.dailyNotesPath), cache (cachedFileList),   *)
(*        lastScanTime]                                                    *)
(* and yields the world after the call together with what it returns.      *)
(* The parameter io names the storage call that fails during the method    *)
(* ("none": every storage call succeeds unless the vault's state makes it  *)
(* fail).                                                                  *)
(***************************************************************************)

getDailyNotesPath(w) == w.path

\* the file name of getNotePath(dateString); the directory is w.path
NoteFileName(dateString) == dateString \o NOTE_FILE_EXTENSION

\* ensureDirectoryExists creating the folder whatever is at the path
ensureDirectoryExistsAlwaysCreating(w, io) ==
  IF io = "createFolder" THEN [w |-> w, ok |-> FALSE]
  ELSE [w |-> [w EXCEPT !.vault[getDailyNotesPath(w)] =
                          [kind |-> "folder", children |-> << >>]],
        ok |-> TRUE]

ensureDirectoryExists(w, io) ==
  LET path == getDailyNotesPath(w)
      kind == w.vault[path].kind
  IN  IF kind = "absent"
        THEN IF io = "createFolder"
               THEN [w |-> w, ok |-> FALSE]
               ELSE [w |-> [w EXCEPT !.vault[path] =
                                       [kind |-> "folder", children |-> << >>]],
                     ok |-> TRUE]
      ELSE IF kind # "folder" THEN [w |-> w, ok |-> FALSE]
      ELSE [w |-> w, ok |-> TRUE]

\* the loop of scanDirectory over folder.children, from child i on
RECURSIVE ScanChildren(_, _, _, _)
ScanChildren(dir, children, i, map) ==
  IF i > Len(children) THEN map
  ELSE LET file == children[i]
           filename == file.name
           dateString == ReplaceFirst(filename, NOTE_FILE_EXTENSION)
       IN  IF /\ file.isFile
              /\ Extension(filename) = <<"m", "d">>
              /\ isValidDailyNoteFilename(filename)
             THEN ScanChildren(dir, children, i + 1,
                               MapSet(map, dateString, TFile(dir, filename)))
             ELSE ScanChildren(dir, children, i + 1, map)

\* how scanDirectory answered: from the cache, with [] for a missing
\* directory, or from a listing of the directory
\* the end of scanDirectory once the loop has rebuilt the cache as map
ScanListed(w, nowT, map) ==
  [w |-> [w EXCEPT !.cache = map, !.lastScanTime = nowT],
   dates |-> sortDateStringsDesc(MapKeys(map)),
   how |-> "listed"]

\* the cache trusted up to and including the 5000th millisecond
scanDirectoryThroughWindowEnd(w, nowT, forceRefresh) ==
  IF ~forceRefresh /\ nowT - w.lastScanTime <= FRESHNESS_MS
    THEN [w |-> w, dates |-> MapKeys(w.cache), how |-> "cache"]
  ELSE IF w.vault[getDailyNotesPath(w)].kind # "folder"
    THEN [w |-> w, dates |-> << >>, how |-> "missing"]
  ELSE ScanListed(w, nowT,
                  ScanChildren(getDailyNotesPath(w),
                               w.vault[getDailyNotesPath(w)].children, 1, << >>))

scanDirectory(w, nowT, forceRefresh) ==
  IF ~forceRefresh /\ nowT - w.lastScanTime < FRESHNESS_MS
    THEN [w |-> w, dates |-> MapKeys(w.cache), how |-> "cache"]
  ELSE IF w.vault[getDailyNotesPath(w)].kind # "folder"
    THEN [w |-> w, dates |-> << >>, how |-> "missing"]
  ELSE ScanListed(w, nowT,
                  ScanChildren(getDailyNotesPath(w),
                               w.vault[getDailyNotesPath(w)].children, 1, << >>))

\* vault.read(file): the content, or a failure when nothing readable is at
\* the file's path or the read fails
VaultRead(v, file, failing) ==
  IF failing \/ AbstractFileAt(v, file.dir, file.name) # "file"
    THEN [ok |-> FALSE, content |-> ""]
    ELSE [ok |-> TRUE,
          content |-> v[file.dir].children[
                        ChildIndex(v[file.dir].children, file.name)].content]

Note(date, dateString, content, file) ==
  [date |-> date, dateString |-> dateString, content |-> content,
   file |-> file, exists |-> TRUE, isDirty |-> FALSE]

\* the content of a note of loadNotes: "" without a file or when the read
\* fails
ContentOf(read) == IF read.ok THEN read.content ELSE ""

LoadContent(v, file, failing) ==
  IF file = NoFile THEN "" ELSE ContentOf(VaultRead(v, file, failing))

\* one turn of the loop of loadNotes in which a failed read drops the note
LoadOneOrSkip(w, notes, dateString, date, file, failing) ==
  IF date = Null \/ failing THEN notes
  ELSE Append(notes, Note(date, dateString,
                          LoadContent(w.vault, file, failing), file))

\* one turn of the loop of loadNotes: the note of dateString is pushed,
\* unless the date-string does not parse
LoadOne(w, notes, dateString, date, file, failing) ==
  IF date = Null THEN notes
  ELSE Append(notes, Note(date, dateString,
                          LoadContent(w.vault, file, failing), file))

\* the loop of loadNotes over datesToLoad, from entry i on; badRead is the
\* date-string whose read fails
RECURSIVE LoadEach(_, _, _, _, _)
LoadEach(w, datesToLoad, i, badRead, notes) ==
  IF i > Len(datesToLoad) THEN notes
  ELSE LoadEach(w, datesToLoad, i + 1, badRead,
                LoadOne(w, notes, datesToLoad[i],
                        parseDateString(datesToLoad[i]),
                        MapGet(w.cache, datesToLoad[i]),
                        datesToLoad[i] = badRead))

\* the filter of loadNotes left out
FilterDatesAll(existingDates, startDateString) == existingDates

FilterDates(existingDates, startDateString) ==
  SelectSeq(existingDates, LAMBDA dateString : LexLeq(dateString, startDateString))

Slice(seq, count) == SubSeq(seq, 1, IF count < Len(seq) THEN count ELSE Len(seq))

\* loadNotes after its scan: scan is what scanDirectory() answered
LoadScanned(scan, count, startDateString, badRead) ==
  [w |-> scan.w, how |-> scan.how, known |-> scan.dates,
   notes |-> LoadEach(scan.w,
                      Slice(FilterDates(scan.dates, startDateString), count),
                      1, badRead, << >>)]

\* loadNotes making sure of the directory first, as createNote does
loadNotesEnsuringDirectory(w, nowT, count, startDate, badRead) ==
  LoadScanned(scanDirectory(ensureDirectoryExists(w, "none").w, nowT, FALSE),
              count, Formatted(startDate), badRead)

loadNotes(w, nowT, count, startDate, badRead) ==
  LoadScanned(scanDirectory(w, nowT, FALSE), count, Formatted(startDate), badRead)

\* vault.create(path, content): the new file becomes the last child
VaultCreate(v, dir, name, content) ==
  [v EXCEPT ![dir].children =
     Append(@, [name |-> name, isFile |-> TRUE, content |-> content])]

\* createNote without the check for a file already at the path: the file
\* there is replaced
CreateInDirectoryOverwriting(w1, dirOk, path, name, dateString, content, io) ==
  IF ~dirOk \/ io = "create"
    THEN [w |-> w1, success |-> FALSE, file |-> NoFile, error |-> "thrown"]
  ELSE IF AbstractFileAt(w1.vault, path, name) = "file"
    THEN [w |-> [w1 EXCEPT
                   !.vault = [w1.vault EXCEPT
                                ![path].children[
                                   ChildIndex(w1.vault[path].children, name)
                                 ].content = content],
                   !.cache = MapSet(w1.cache, dateString, TFile(path, name))],
          success |-> TRUE, file |-> TFile(path, name), error |-> ""]
  ELSE [w |-> [w1 EXCEPT
                 !.vault = [w1.vault EXCEPT ![path].children =
                              Append(@, [name |-> name, isFile |-> TRUE,
                                         content |-> content])],
                 !.cache = MapSet(w1.cache, dateString, TFile(path, name))],
        success |-> TRUE, file |-> TFile(path, name), error |-> ""]

\* createNote after ensureDirectoryExists: w1 is the world it left, dirOk
\* what it answered, path and name the directory and file name of the note
CreateInDirectory(w1, dirOk, path, name, dateString, content, io) ==
  IF ~dirOk
    THEN [w |-> w1, success |-> FALSE, file |-> NoFile,
          error |-> "permissionDenied"]
  ELSE IF AbstractFileAt(w1.vault, path, name) # "none"
    THEN [w |-> w1, success |-> FALSE, file |-> NoFile,
          error |-> "File already exists"]
  ELSE IF io = "create"
    THEN [w |-> w1, success |-> FALSE, file |-> NoFile, error |-> "thrown"]
  ELSE [w |-> [w1 EXCEPT
                 !.vault = VaultCreate(w1.vault, path, name, content),
                 !.cache = MapSet(w1.cache, dateString, TFile(path, name))],
        success |-> TRUE, file |-> TFile(path, name), error |-> ""]

CreateAfterEnsure(dir, dateString, content, io) ==
  CreateInDirectory(dir.w, dir.ok, getDailyNotesPath(dir.w),
                    NoteFileName(dateString), dateString, content, io)

\* createNote without the update of the cache that follows vault.create
createNoteUnregistered(w, dateString, content, io) ==
  [CreateAfterEnsure(ensureDirectoryExists(w, io), dateString, content, io)
     EXCEPT !.w.cache = w.cache]

createNote(w, dateString, content, io) ==
  CreateAfterEnsure(ensureDirectoryExists(w, io), dateString, content, io)

\* vault.modify(file, content)
VaultModify(v, file, content) ==
  [v EXCEPT ![file.dir].children[ChildIndex(v[file.dir].children, file.name)].content
              = content]

\* saveNote writing a new file each time instead of modifying the cached one
SaveCachedAsNew(w, file, dateString, content, io) ==
  IF file = NoFile THEN createNote(w, dateString, content, io)
  ELSE [w |-> [w EXCEPT !.vault = VaultCreate(w.vault, file.dir, file.name,
                                              content)],
        success |-> TRUE, file |-> file, error |-> ""]

\* saveNote delegating to createNote with the stale entry left in the cache
SaveCachedKeepingStale(w, file, dateString, content, io) ==
  IF file = NoFile THEN createNote(w, dateString, content, io)
  ELSE IF AbstractFileAt(w.vault, file.dir, file.name) = "none"
    THEN createNote(w, dateString, content, io)
  ELSE IF io = "modify" \/ AbstractFileAt(w.vault, file.dir, file.name) # "file"
    THEN [w |-> w, success |-> FALSE, file |-> NoFile, error |-> "thrown"]
  ELSE [w |-> [w EXCEPT !.vault = VaultModify(w.vault, file, content)],
        success |-> TRUE, file |-> file, error |-> ""]

\* saveNote once the cache has answered file for dateString
SaveCached(w, file, dateString, content, io) ==
  IF file = NoFile THEN createNote(w, dateString, content, io)
  ELSE IF AbstractFileAt(w.vault, file.dir, file.name) = "none"
    THEN createNote([w EXCEPT !.cache = MapDelete(w.cache, dateString)],
                    dateString, content, io)
  ELSE IF io = "modify" \/ AbstractFileAt(w.vault, file.dir, file.name) # "file"
    THEN [w |-> w, success |-> FALSE, file |-> NoFile, error |-> "thrown"]
  ELSE [w |-> [w EXCEPT !.vault = VaultModify(w.vault, file, content)],
        success |-> TRUE, file |-> file, error |-> ""]

saveNote(w, dateString, content, io) ==
  SaveCached(w, MapGet(w.cache, dateString), dateString, content, io)

\* vault.delete(file)
VaultDelete(v, file) ==
  [v EXCEPT ![file.dir].children =
     RemoveAt(@, ChildIndex(v[file.dir].children, file.name))]

\* deleteNote without the removal of the cache entry that follows vault.delete
DeleteCachedKeepingEntry(w, file, dateString, io) ==
  IF file = NoFile
    THEN [w |-> w, success |-> FALSE, file |-> NoFile,
          error |-> "File not found"]
  ELSE IF io = "delete" \/ AbstractFileAt(w.vault, file.dir, file.name) = "none"
    THEN [w |-> w, success |-> FALSE, file |-> NoFile, error |-> "thrown"]
  ELSE [w |-> [w EXCEPT !.vault = VaultDelete(w.vault, file)],
        success |-> TRUE, file |-> NoFile, error |-> ""]

\* deleting a file that is no longer in the vault is rejected by the vault
\* deleteNote once the cache has answered file for dateString
DeleteCached(w, file, dateString, io) ==
  IF file = NoFile
    THEN [w |-> w, success |-> FALSE, file |-> NoFile,
          error |-> "File not found"]
  ELSE IF io = "delete" \/ AbstractFileAt(w.vault, file.dir, file.name) = "none"
    THEN [w |-> w, success |-> FALSE, file |-> NoFile, error |-> "thrown"]
  ELSE [w |-> [w EXCEPT !.vault = VaultDelete(w.vault, file),
                        !.cache = MapDelete(w.cache, dateString)],
        success |-> TRUE, file |-> NoFile, error |-> ""]

deleteNote(w, dateString, io) ==
  DeleteCached(w, MapGet(w.cache, dateString), dateString, io)

\* readNote: null without a cached file or when the read fails
ReadResult(read) ==
  IF read.ok THEN [found |-> TRUE, content |-> read.content]
  ELSE [found |-> FALSE, content |-> ""]

ReadCached(w, file, failing) ==
  IF file = NoFile THEN [found |-> FALSE, content |-> ""]
  ELSE ReadResult(VaultRead(w.vault, file, failing))

readNote(w, dateString, badRead) ==
  ReadCached(w, MapGet(w.cache, dateString), dateString = badRead)

ExistsIn(scan, dateString) ==
  [w |-> scan.w, how |-> scan.how, exists |-> Includes(scan.dates, dateString)]

noteExists(w, nowT, dateString) ==
  ExistsIn(scanDirectory(w, nowT, FALSE), dateString)

RefreshPath(w, path, name, dateString) ==
  IF AbstractFileAt(w.vault, path, name) = "file"
    THEN [w EXCEPT !.cache = MapSet(w.cache, dateString, TFile(path, name))]
    ELSE [w EXCEPT !.cache = MapDelete(w.cache, dateString)]

refreshFile(w, dateString) ==
  RefreshPath(w, getDailyNotesPath(w), NoteFileName(dateString), dateString)

clearCache(w) == [w EXCEPT !.cache = << >>, !.lastScanTime = 0]

updateSettings(w, dailyNotesPath) ==
  [w EXCEPT !.path = dailyNotesPath, !.cache = << >>]

NoNote == Note(Null, << >>, "", NoFile)

\* outcome: "returned" with the note, "undefined" when notes[0] is read from
\* an empty page, "thrown" when the Error of line 214 leaves the method
\* the branch of an existing note: notes[0] of the page loadNotes returned
TodayLoaded(load) ==
  IF load.notes = << >>
    THEN [w |-> load.w, outcome |-> "undefined", note |-> NoNote,
          created |-> FALSE]
    ELSE [w |-> load.w, outcome |-> "returned", note |-> load.notes[1],
          created |-> FALSE]

\* the branch of a new note: result is what createNote answered
TodayCreated(result, today, dateString) ==
  IF ~result.success
    THEN [w |-> result.w, outcome |-> "thrown", note |-> NoNote,
          created |-> FALSE]
    ELSE [w |-> result.w, outcome |-> "returned",
          note |-> Note(today, dateString, DEFAULT_NOTE_TEMPLATE, result.file),
          created |-> TRUE]

TodayScanned(scan, nowT, today, dateString, io, badRead) ==
  IF Includes(scan.dates, dateString)
    THEN TodayLoaded(loadNotes(scan.w, nowT, 1, today, badRead))
    ELSE TodayCreated(createNote(scan.w, dateString, DEFAULT_NOTE_TEMPLATE, io),
                      today, dateString)

getOrCreateTodayNote(w, nowT, today, io, badRead) ==
  TodayScanned(scanDirectory(w, nowT, FALSE), nowT, today, Formatted(today),
               io, badRead)

(***************************************************************************)
(* DailyNotesView: the notes shown and hasMoreToLoad.  Each method runs as *)
(* one step, so isLoading is false whenever a method starts; opened tells  *)
(* that onOpen has run, after which the scroll handler and the refresh     *)
(* command reach the view.  The editors and the rendering are left out:    *)
(* saveAllEditors writes the content of notes and no other state.          *)
(***************************************************************************)

\* no date-string: the read of no note fails
NoString == << >>

NewView ==
  [notes |-> << >>, isLoading |-> FALSE, hasMoreToLoad |-> TRUE,
   opened |-> FALSE]

subtractDays(date, days) == DayOffset(date, -days)

\* what a load of the view did: "skipped" without a loadNotes request,
\* otherwise how the page compares with the count asked for
PageOutcome(page, count) ==
  IF Len(page) = 0 THEN "empty"
  ELSE IF Len(page) = count THEN "full" ELSE "short"

\* loadInitialNotes once loadNotes has answered
InitialLoaded(v, load, count) ==
  [w |-> load.w,
   view |-> [v EXCEPT !.notes = load.notes,
                      !.hasMoreToLoad = (Len(load.notes) = count),
                      !.isLoading = FALSE],
   requested |-> TRUE, page |-> load.notes,
   outcome |-> PageOutcome(load.notes, count)]

loadInitialNotes(v, w, nowT, today, initialLoadCount) ==
  InitialLoaded(v, loadNotes(w, nowT, initialLoadCount, today, NoString),
                initialLoadCount)

\* the cursor of loadMoreNotes: the day before the last note shown
OldestDate(v, today) ==
  IF Len(v.notes) > 0 THEN subtractDays(v.notes[Len(v.notes)].date, 1)
  ELSE today

\* loadMoreNotes once loadNotes has answered
MoreLoaded(v, load, count) ==
  IF Len(load.notes) = 0
    THEN [w |-> load.w,
          view |-> [v EXCEPT !.hasMoreToLoad = FALSE, !.isLoading = FALSE],
          requested |-> TRUE, page |-> load.notes, outcome |-> "empty"]
    ELSE [w |-> load.w,
          view |-> [v EXCEPT !.notes = v.notes \o load.notes,
                             !.hasMoreToLoad = (Len(load.notes) = count),
                             !.isLoading = FALSE],
          requested |-> TRUE, page |-> load.notes,
          outcome |-> PageOutcome(load.notes, count)]

\* loadMoreNotes asking loadNotes whatever hasMoreToLoad says
loadMoreNotesUnguarded(v, w, nowT, today, loadMoreCount) ==
  MoreLoaded(v, loadNotes(w, nowT, loadMoreCount, OldestDate(v, today),
                          NoString),
             loadMoreCount)

loadMoreNotes(v, w, nowT, today, loadMoreCount) ==
  IF v.isLoading \/ ~v.hasMoreToLoad
    THEN [w |-> w, view |-> v, requested |-> FALSE, page |-> << >>,
          outcome |-> "skipped"]
    ELSE MoreLoaded(v, loadNotes(w, nowT, loadMoreCount, OldestDate(v, today),
                                 NoString),
                    loadMoreCount)

\* onOpen after getOrCreateTodayNote, whose Error it catches: todayNote is
\* what that call did
OpenLoaded(v, todayNote, nowT, today, initialLoadCount) ==
  [loadInitialNotes([v EXCEPT !.opened = TRUE], todayNote.w, nowT, today,
                    initialLoadCount)
     EXCEPT !.outcome = IF todayNote.created THEN "created"
                        ELSE todayNote.outcome]

onOpen(v, w, nowT, today, io, initialLoadCount) ==
  OpenLoaded(v,
             getOrCreateTodayNote(ensureDirectoryExists(w, io).w, nowT, today,
                                  io, NoString),
             nowT, today, initialLoadCount)

\* refresh: the editors are saved, then the first page is loaded again
refresh(v, w, nowT, today, initialLoadCount) ==
  loadInitialNotes(v, w, nowT, today, initialLoadCount)

\* the characters String.prototype.trim removes that the model's contents
\* hold: the space and the line feed
Whitespace == {" ", "\n"}

RECURSIVE trimStart(_)
trimStart(s) ==
  IF s # << >> /\ s[1] \in Whitespace THEN trimStart(Tail(s)) ELSE s

RECURSIVE trimEnd(_)
trimEnd(s) ==
  IF s # << >> /\ s[Len(s)] \in Whitespace
    THEN trimEnd(SubSeq(s, 1, Len(s) - 1))
    ELSE s

trim(s) == trimEnd(trimStart(s))

\* content.split("\n"): the lines between the line feeds, one line for a
\* content without line feed
RECURSIVE split(_)
split(s) ==
  IF \A i \in 1..Len(s) : s[i] # "\n" THEN <<s>>
  ELSE <<SubSeq(s, 1, (CHOOSE i \in 1..Len(s) :
                        s[i] = "\n" /\ \A j \in 1..(i - 1) : s[j] # "\n") - 1)>>
         \o split(SubSeq(s, (CHOOSE i \in 1..Len(s) :
                        s[i] = "\n" /\ \A j \in 1..(i - 1) : s[j] # "\n") + 1,
                        Len(s)))

\* lines.join("\n")
RECURSIVE join(_)
join(lines) ==
  IF lines = << >> THEN << >>
  ELSE IF Len(lines) = 1 THEN lines[1]
  ELSE lines[1] \o <<"\n">> \o join(Tail(lines))

\* the while loops of stripDateLineFromContent: startIndex moved past the
\* lines that are empty once trimmed (lines is indexed from 1 here, so
\* startIndex is the code's plus 1)
RECURSIVE SkipEmptyLines(_, _)
SkipEmptyLines(lines, startIndex) ==
  IF startIndex <= Len(lines) /\ trim(lines[startIndex]) = << >>
    THEN SkipEmptyLines(lines, startIndex + 1)
    ELSE startIndex

\* the date line compared as it stands, not trimmed
SkipDateLineUntrimmed(lines, startIndex, dateString) ==
  IF startIndex <= Len(lines) /\ lines[startIndex] = dateString
    THEN SkipEmptyLines(lines, startIndex + 1)
    ELSE startIndex

\* the line at startIndex, if it is the date once trimmed, and the empty
\* lines behind it are skipped
SkipDateLine(lines, startIndex, dateString) ==
  IF startIndex <= Len(lines) /\ trim(lines[startIndex]) = dateString
    THEN SkipEmptyLines(lines, startIndex + 1)
    ELSE startIndex

SliceFrom(content, lines, startIndex) ==
  IF startIndex > 1
    THEN join(SubSeq(lines, startIndex, Len(lines)))
    ELSE content

stripDateLineFromContent(content, dateString) ==
  IF content = << >> \/ trim(content) = << >> THEN content
  ELSE SliceFrom(content, split(content),
                 SkipDateLine(split(content),
                              SkipEmptyLines(split(content), 1), dateString))

(***************************************************************************)
(* EmbeddedEditorManager: one EditorInstance for each date-string.  text   *)
(* is what the editor holds, saveTimeout tells that the timer set by       *)
(* onChange has not fired yet, and writing lists the contents handed to    *)
(* vault.modify by calls of saveEditor that have not returned from their   *)
(* await.                                                                  *)
(***************************************************************************)

NoEditor ==
  [open |-> FALSE, file |-> NoFile, text |-> "", isDirty |-> FALSE,
   saveTimeout |-> FALSE, writing |-> << >>, awaited |-> 0, timers |-> 0]

\* the saves of one editor that may be awaiting vault.modify at once
MaxWrites == 2

\* createEditor: nothing when the date-string has an editor
createEditor(eds, file, dateString, initialContent) ==
  IF eds[dateString].open THEN eds
  ELSE [eds EXCEPT ![dateString] =
          [NoEditor EXCEPT !.open = TRUE, !.file = file,
                           !.text = initialContent,
                           !.writing = eds[dateString].writing]]

\* the listener without its clearTimeout
onChangeKeepingTimer(editorInstance, text) ==
  [editorInstance EXCEPT !.text = text, !.isDirty = TRUE,
                         !.timers = @ + 1, !.saveTimeout = TRUE]

\* the listener setupAutoSave registers, after the editor took the edit:
\* clearTimeout takes the timer saveTimeout names, if it has not fired,
\* from the timers set (timers counts them), setTimeout adds one
onChange(editorInstance, text) ==
  [editorInstance EXCEPT !.text = text, !.isDirty = TRUE,
                         !.timers = (IF editorInstance.saveTimeout
                                       THEN @ - 1 ELSE @) + 1,
                         !.saveTimeout = TRUE]

\* a timer set by onChange fires, the one saveTimeout names (named) or an
\* earlier one, and calls saveEditor
TimerFired(editorInstance, named) ==
  [editorInstance EXCEPT !.timers = @ - 1,
                         !.saveTimeout = IF named THEN FALSE ELSE @]

\* saveEditor up to its await: the content is read and handed to
\* vault.modify, unless there is no editor or it is not dirty
saveEditor(editorInstance) ==
  IF ~editorInstance.open \/ ~editorInstance.isDirty THEN editorInstance
  ELSE [editorInstance EXCEPT !.writing = Append(@, editorInstance.text)]

\* saveEditor after its await: vault.modify has returned
ModifyReturned(editorInstance, k) ==
  [editorInstance EXCEPT !.writing = RemoveAt(@, k), !.isDirty = FALSE]

\* destroyEditor behind its save: the timeout is cleared, the widget
\* unloaded and the entry deleted from the map (open = FALSE; file and text
\* stay as what the unloaded editor held)
Unloaded(editorInstance) ==
  [editorInstance EXCEPT !.open = FALSE, !.saveTimeout = FALSE, !.awaited = 0,
                         !.timers = IF editorInstance.saveTimeout
                                      THEN @ - 1 ELSE @]

\* destroyEditor up to its await, or to its end when nothing is awaited:
\* a dirty editor is saved first, awaited being the place of that save
\* among the saves in flight
destroyEditor(editorInstance) ==
  IF ~editorInstance.open THEN editorInstance
  ELSE IF editorInstance.isDirty
    THEN [saveEditor(editorInstance)
            EXCEPT !.awaited = Len(editorInstance.writing) + 1]
  ELSE Unloaded(editorInstance)

\* vault.modify of the k-th save returns: saveEditor ends, and the
\* destroyEditor that awaited this save goes on
SaveReturned(editorInstance, k) ==
  IF editorInstance.awaited = k THEN Unloaded(ModifyReturned(editorInstance, k))
  ELSE IF editorInstance.awaited > k
    THEN [ModifyReturned(editorInstance, k) EXCEPT !.awaited = @ - 1]
  ELSE ModifyReturned(editorInstance, k)

(***************************************************************************)
(* The state machine                                                       *)
(***************************************************************************)

VARIABLES
  vault,         \* [Dirs -> [kind, children]]: the file tree under each path
  path,          \* settings.dailyNotesPath
  cache,         \* cachedFileList
  lastScanTime,  \* lastScanTime
  now,           \* Date.now()
  lastOp,        \* the last call made
  view,          \* the DailyNotesView: notes, isLoading, hasMoreToLoad
  editors,       \* the editors of the EmbeddedEditorManager
  probe,         \* a call of a function of DateService: argument and result
  calls          \* the calls of the manager suspended at an await

vars ==
  <<vault, path, cache, lastScanTime, now, lastOp, view, editors, probe,
    calls>>

\* what an external change may put into a directory
File(name) == [name |-> name, isFile |-> TRUE, content |-> "a"]
Folder(name) == [name |-> name, isFile |-> FALSE, content |-> ""]

NoteEntries == {File(s \o MdExt) : s \in ValidArgs}

World == [vault |-> vault, path |-> path, cache |-> cache,
          lastScanTime |-> lastScanTime]

SetWorld(w) ==
  /\ vault' = w.vault
  /\ path' = w.path
  /\ cache' = w.cache
  /\ lastScanTime' = w.lastScanTime

\* the calls the model keeps the name of; every other call is "other"
NoOp == [op |-> "init", force |-> FALSE, outcome |-> "-"]

Called(name) == [NoOp EXCEPT !.op = name]

\* Date.now() when the plugin is loaded: long after the epoch, so that
\* lastScanTime = 0 lies outside the freshness window
StartTime == 2 * FRESHNESS_MS

TickMs == FRESHNESS_MS \div 2

MaxTime == StartTime + MaxTicks * TickMs

\* the calls that may overlap
CallIds == {1, 2}

\* a call that has not been made: pc is the await the call is suspended at,
\* dirOk what ensureDirectoryExists returned, dates the date-strings a
\* loadNotes has still to read and notes the records it has built
NoCall ==
  [pc |-> "idle", op |-> "none", dirOk |-> FALSE, content |-> "",
   result |-> "none", dates |-> << >>, notes |-> << >>, count |-> 0]

\* no function of DateService has been called on its own
NoProbe == [kind |-> "none", arg |-> << >>, fn |-> "none", result |-> << >>]

Init ==
  /\ probe = NoProbe
  /\ vault = [d \in Dirs |-> [kind |-> "absent", children |-> << >>]]
  /\ path = "daily-notes"
  /\ cache = << >>
  /\ lastScanTime = 0
  /\ now = StartTime
  /\ lastOp = NoOp
  /\ view = NewView
  /\ editors = [dateString \in ValidArgs |-> NoEditor]
  /\ calls = [c \in CallIds |-> NoCall]

Tick ==
  /\ now < MaxTime
  /\ now' = now + TickMs
  /\ UNCHANGED <<vault, path, cache, lastScanTime, lastOp, view, editors, probe, calls>>

\* the manager creates no file beyond the bound of the model
WithinBound(w) == TotalFiles(w.vault) <= MaxFiles

ScanDirectory(forceRefresh) ==
  /\ SetWorld(scanDirectory(World, now, forceRefresh).w)
  /\ lastOp' = [Called("scanDirectory")
                  EXCEPT !.force = forceRefresh,
                         !.outcome = scanDirectory(World, now, forceRefresh).how]
  /\ UNCHANGED <<now, view, editors, probe, calls>>

LoadNotes(count, startDate) ==
  /\ SetWorld(loadNotes(World, now, count, startDate, NoString).w)
  /\ lastOp' = Called("loadNotes")
  /\ UNCHANGED <<now, view, editors, probe, calls>>

\* the call left the world w, within the bound of the model
Returns(w, op) ==
  /\ WithinBound(w)
  /\ SetWorld(w)
  /\ lastOp' = op
  /\ UNCHANGED <<now, view, editors, probe, calls>>

\* what the caller of getOrCreateTodayNote saw
TodayOp(r) ==
  [Called("getOrCreateTodayNote") EXCEPT
     !.outcome = IF r.created THEN "created" ELSE r.outcome]

TodayReturns(r) == Returns(r.w, TodayOp(r))

GetOrCreateTodayNote(io) ==
  /\ TodayReturns(getOrCreateTodayNote(World, now, Today, io, NoString))

CreateNote(dateString, content, io) ==
  /\ Returns(createNote(World, dateString, content, io).w, Called("createNote"))

SaveNote(dateString, content, io) ==
  /\ Returns(saveNote(World, dateString, content, io).w, Called("saveNote"))

DeleteNote(dateString, io) ==
  /\ Returns(deleteNote(World, dateString, io).w, Called("deleteNote"))

\* readNote changes nothing
ReadNote(dateString) ==
  /\ lastOp' = Called("other")
  /\ UNCHANGED <<vault, path, cache, lastScanTime, now, view, editors, probe, calls>>

NoteExists(dateString) ==
  /\ SetWorld(noteExists(World, now, dateString).w)
  /\ lastOp' = Called("other")
  /\ UNCHANGED <<now, view, editors, probe, calls>>

RefreshFile(dateString) ==
  /\ SetWorld(refreshFile(World, dateString))
  /\ lastOp' = Called("other")
  /\ UNCHANGED <<now, view, editors, probe, calls>>

ClearCache ==
  /\ SetWorld(clearCache(World))
  /\ lastOp' = Called("other")
  /\ UNCHANGED <<now, view, editors, probe, calls>>

UpdateSettings(dailyNotesPath) ==
  /\ SetWorld(updateSettings(World, dailyNotesPath))
  /\ lastOp' = Called("updateSettings")
  /\ UNCHANGED <<now, view, editors, probe, calls>>

EnsureDirectoryExists(io) ==
  /\ SetWorld(ensureDirectoryExists(World, io).w)
  /\ lastOp' = Called("ensureDirectoryExists")
  /\ UNCHANGED <<now, view, editors, probe, calls>>

(***************************************************************************)
(* Changes made to the vault from outside the manager (the user creating   *)
(* or deleting files by hand).  The vault updates its file tree and        *)
(* triggers the event in one step; the handlers registered in onload       *)
(* rescan when the path of the changed file starts with the configured     *)
(* path.  Neither name in Dirs is a prefix of the other.                   *)
(***************************************************************************)

PathStartsWith(dir, prefix) == dir = prefix

\* the handlers of the vault's create, delete and rename events
OnVaultEvent(w, nowT, dir) ==
  IF PathStartsWith(dir, w.path) THEN scanDirectory(w, nowT, TRUE).w ELSE w

VaultEvent(v, dir) ==
  /\ SetWorld(OnVaultEvent([World EXCEPT !.vault = v], now, dir))
  /\ lastOp' = Called("vaultEvent")
  /\ UNCHANGED <<now, view, editors, probe, calls>>

ExternalCreate(dir, entry) ==
  /\ vault[dir].kind = "folder"
  /\ TotalFiles(vault) < MaxFiles
  /\ ChildIndex(vault[dir].children, entry.name) = 0
  /\ VaultEvent([vault EXCEPT ![dir].children = Append(@, entry)], dir)

ExternalDelete(dir, i) ==
  /\ i \in 1..Len(vault[dir].children)
  /\ VaultEvent([vault EXCEPT ![dir].children = RemoveAt(@, i)], dir)

ExternalCreateFolder(dir) ==
  /\ vault[dir].kind = "absent"
  /\ VaultEvent([vault EXCEPT ![dir] = [kind |-> "folder", children |-> << >>]],
                dir)

\* a file is created at the path the setting names
ExternalCreateFileAtPath(dir) ==
  /\ vault[dir].kind = "absent"
  /\ VaultEvent([vault EXCEPT ![dir] = [kind |-> "file", children |-> << >>]],
                dir)

\* the folder (with what it holds) or the file at the path is deleted
ExternalRemovePath(dir) ==
  /\ vault[dir].kind # "absent"
  /\ VaultEvent([vault EXCEPT ![dir] = [kind |-> "absent", children |-> << >>]],
                dir)

Step(args, contents, entries, dirs) ==
  \/ Tick
  \/ \E forceRefresh \in BOOLEAN : ScanDirectory(forceRefresh)
  \/ \E count \in 1..MaxCount, startDate \in CursorDates :
       LoadNotes(count, startDate)
  \/ \E io \in {"none", "createFolder", "create"} : GetOrCreateTodayNote(io)
  \/ \E dateString \in args, io \in {"none", "createFolder", "create"} :
       CreateNote(dateString, "a", io)
  \/ \E dateString \in args, content \in contents, io \in {"none", "modify"} :
       SaveNote(dateString, content, io)
  \/ \E dateString \in args, io \in {"none", "delete"} :
       DeleteNote(dateString, io)
  \/ \E dateString \in args : ReadNote(dateString)
  \/ \E dateString \in args : NoteExists(dateString)
  \/ \E dateString \in args : RefreshFile(dateString)
  \/ ClearCache
  \/ \E dailyNotesPath \in dirs : UpdateSettings(dailyNotesPath)
  \/ \E io \in {"none", "createFolder"} : EnsureDirectoryExists(io)
  \/ \E dir \in dirs, entry \in entries : ExternalCreate(dir, entry)
  \/ \E dir \in dirs, i \in 1..MaxFiles : ExternalDelete(dir, i)
  \/ \E dir \in dirs : ExternalCreateFolder(dir)
  \/ \E dir \in dirs : ExternalCreateFileAtPath(dir)
  \/ \E dir \in dirs : ExternalRemovePath(dir)

\* the notes directory keeps its path and the consumer passes canonical
\* date-strings
Next == Step(ValidArgs, {"a"}, NoteEntries, {"daily-notes"})

Spec == Init /\ [][Next]_vars

\* the consumer passes any string as a date-string, and any kind of entry
\* may be in the directory
AnyEntries ==
  {File(S10 \o MdExt), File(S14 \o MdExt), File(SNotes \o MdExt),
   File(SFeb30 \o MdExt), File(S10 \o TxtExt), Folder(S15 \o MdExt)}

NextAnyArg ==
  \/ Tick
  \/ \E forceRefresh \in BOOLEAN : ScanDirectory(forceRefresh)
  \/ \E dateString \in {S14, SFeb30, SNotes} : CreateNote(dateString, "a", "none")
  \/ \E dateString \in {S14, SFeb30, SNotes} : SaveNote(dateString, "a", "none")
  \/ \E dateString \in {S14, SFeb30, SNotes} : DeleteNote(dateString, "none")
  \/ \E dateString \in {S14, SFeb30, SNotes} : RefreshFile(dateString)
  \/ UpdateSettings("daily-notes")
  \/ \E entry \in AnyEntries : ExternalCreate("daily-notes", entry)
  \/ \E i \in 1..MaxFiles : ExternalDelete("daily-notes", i)
  \/ ExternalRemovePath("daily-notes")

SpecAnyArg == Init /\ [][NextAnyArg]_vars

\* the setting dailyNotesPath changes between the two directories
NextSettings == Step({S14}, {"a"}, {File(S14 \o MdExt)}, Dirs)

SpecSettings == Init /\ [][NextSettings]_vars

(***************************************************************************)
(* What the properties are stated with                                     *)
(***************************************************************************)

IsLeapYear(y) == (y % 4 = 0 /\ y % 100 # 0) \/ y % 400 = 0

DaysInMonth(y, m) ==
  IF m = 2 THEN (IF IsLeapYear(y) THEN 29 ELSE 28)
  ELSE IF m \in {4, 6, 9, 11} THEN 30 ELSE 31

\* s is a canonical date-string: zero-padded YYYY-MM-DD naming a day of the
\* calendar in a year of 1900..2100
ValidDateString(s) ==
  /\ Len(s) = 10
  /\ \A i \in {1, 2, 3, 4, 6, 7, 9, 10} : IsDigit(s[i])
  /\ s[5] = "-" /\ s[8] = "-"
  /\ LET y == 1000 * DigitVal(s[1]) + 100 * DigitVal(s[2])
              + 10 * DigitVal(s[3]) + DigitVal(s[4])
         m == 10 * DigitVal(s[6]) + DigitVal(s[7])
         d == 10 * DigitVal(s[9]) + DigitVal(s[10])
     IN  /\ y >= 1900 /\ y <= 2100
         /\ m >= 1 /\ m <= 12
         /\ d >= 1 /\ d <= DaysInMonth(y, m)

\* each date-string is after the next one
StrictlyDescending(dateStrings) ==
  \A i \in 1..(Len(dateStrings) - 1) :
    ~LexLeq(dateStrings[i], dateStrings[i + 1])

DateStringsOf(notes) == [i \in 1..Len(notes) |-> notes[i].dateString]

Range(seq) == {seq[i] : i \in 1..Len(seq)}

Min(a, b) == IF a < b THEN a ELSE b

\* today's canonical date-string
TodayString == S14

\* the times at which a later call may be made
LaterTimes == {now + k * TickMs : k \in 0..MaxTicks}

Page(count, startDate) == loadNotes(World, now, count, startDate, NoString)

(***************************************************************************)
(* Claims C1 - C10                                                         *)
(***************************************************************************)

\* C1: whatever the cache, the count and the cursor, the records loadNotes
\* returns are ordered newest first: their date-strings strictly descend.
C1_PageNewestFirst ==
  \A count \in 1..MaxCount, startDate \in CursorDates :
    StrictlyDescending(DateStringsOf(Page(count, startDate).notes))

\* C2: loadNotes returns exactly the min(count, k) newest of the k known
\* notes dated on or before the cursor.
C2_PageIsTheNewestKnown ==
  \A count \in 1..MaxCount, startDate \in CursorDates :
    LET r == Page(count, startDate)
        page == Range(DateStringsOf(r.notes))
        eligible == {k \in Range(MapKeys(r.w.cache)) :
                       LexLeq(k, formatDateToFileName(startDate))}
    IN  /\ Len(r.notes) = Min(count, Cardinality(eligible))
        /\ Cardinality(page) = Len(r.notes)
        /\ page \subseteq eligible
        /\ \A x \in page, y \in eligible \ page : ~LexLeq(x, y)

\* C3: a page of loadNotes holds at most count records, and each record is
\* dated on or before the cursor, as a string and as a date.
C3_PageWithinCountAndCursor ==
  \A count \in 1..MaxCount, startDate \in CursorDates :
    LET notes == Page(count, startDate).notes
    IN  /\ Len(notes) <= count
        /\ \A i \in 1..Len(notes) :
             /\ LexLeq(notes[i].dateString, formatDateToFileName(startDate))
             /\ getTime(notes[i].date) <= getTime(startDate)

\* loadNotes has been called, and here a full page leaves out a known note
\* dated after the cursor
C3_Witness ==
  /\ lastOp.op = "loadNotes"
  /\ \E count \in 1..MaxCount, startDate \in CursorDates :
       /\ Len(Page(count, startDate).notes) = count
       /\ \E k \in Range(MapKeys(cache)) :
            ~LexLeq(k, formatDateToFileName(startDate))

\* C4: within the freshness window scanDirectory(false) returns the cached
\* keys sorted newest first.
C4_CachedScanNewestFirst ==
  (now - lastScanTime < FRESHNESS_MS) =>
    LET dates == scanDirectory(World, now, FALSE).dates
    IN  /\ Range(dates) = Range(MapKeys(cache))
        /\ StrictlyDescending(dates)

\* the date-strings of the valid dated markdown files directly in dir
DatedNotesIn(v, dir) ==
  {s \in AnyArgs \cup {S15} :
     /\ ValidDateString(s)
     /\ \E i \in 1..Len(v[dir].children) :
          /\ v[dir].children[i].isFile
          /\ v[dir].children[i].name = s \o MdExt}

\* C5: on an existing directory scanDirectory(true) returns the date-strings
\* of the valid dated markdown files in it, newest first, and leaves the
\* cache holding exactly these keys, each with the handle of its file.
C5_ForcedScanListsDatedNotes ==
  (vault[path].kind = "folder") =>
    LET r == scanDirectory(World, now, TRUE)
        expected == DatedNotesIn(vault, path)
    IN  /\ Range(r.dates) = expected
        /\ Len(r.dates) = Cardinality(expected)
        /\ StrictlyDescending(r.dates)
        /\ Range(MapKeys(r.w.cache)) = expected
        /\ Len(r.w.cache) = Cardinality(expected)
        /\ \A k \in expected : MapGet(r.w.cache, k) = TFile(path, k \o MdExt)
        /\ r.w.vault = vault

\* a forced scan has just run on a directory that holds a dated note and an
\* entry that is none
C5_Witness ==
  /\ lastOp.op = "scanDirectory" /\ lastOp.force
  /\ vault[path].kind = "folder"
  /\ Len(cache) >= 1
  /\ Len(vault[path].children) > Len(cache)

\* C6: every key of the cache is a valid date-string.
C6_CacheKeysValid == \A i \in 1..Len(cache) : ValidDateString(cache[i].key)

\* C7: when updateSettings changes the directory, the cache is cleared and
\* the freshness timer reset, so that the next scanDirectory(false) does not
\* answer from the cache, whatever the time elapsed.
C7_SettingsChangeForcesListing ==
  \A dailyNotesPath \in Dirs \ {path} :
    LET w == updateSettings(World, dailyNotesPath)
    IN  /\ w.cache = << >>
        /\ \A t \in LaterTimes : scanDirectory(w, t, FALSE).how # "cache"

\* C8: a record returned by getOrCreateTodayNote is the record of today, with
\* its file handle, exists = true and isDirty = false.
C8_TodayNoteIsToday ==
  \A io \in {"none", "createFolder", "create"} :
    LET r == getOrCreateTodayNote(World, now, Today, io, NoString)
    IN  (r.outcome = "returned") =>
          /\ r.note.dateString = TodayString
          /\ r.note.file # NoFile
          /\ r.note.exists /\ ~r.note.isDirty

\* C9: on an existing, empty directory of which the cache lists no note of
\* today, getOrCreateTodayNote creates today's file with empty content and
\* registers it in the cache, and every scanDirectory(false) made within the
\* freshness window after it includes today without listing the directory.
\* (When the cache already names today, the method takes its other branch
\* and loads the note instead of creating it: the scenario starts from an
\* index that does not know today's note.)
C9_TodayCreatedAndCached ==
  (/\ vault[path].kind = "folder"
   /\ vault[path].children = << >>
   /\ ~MapHas(cache, TodayString)) =>
    LET r == getOrCreateTodayNote(World, now, Today, "none", NoString)
    IN  /\ r.created
        /\ r.outcome = "returned"
        /\ r.w.vault[path].children =
             <<[name |-> TodayString \o MdExt, isFile |-> TRUE, content |-> ""]>>
        /\ MapGet(r.w.cache, TodayString) = TFile(path, TodayString \o MdExt)
        /\ \A t \in LaterTimes :
             (t - r.w.lastScanTime < FRESHNESS_MS) =>
               LET scan == scanDirectory(r.w, t, FALSE)
               IN  /\ Includes(scan.dates, TodayString)
                   /\ scan.how = "cache"

\* getOrCreateTodayNote has just created today's note in a directory that
\* was empty, and the last scan is within the freshness window
C9_Witness ==
  /\ lastOp.op = "getOrCreateTodayNote" /\ lastOp.outcome = "created"
  /\ now - lastScanTime < FRESHNESS_MS
  /\ vault[path].children =
       <<[name |-> TodayString \o MdExt, isFile |-> TRUE, content |-> ""]>>
  /\ MapKeys(cache) = <<TodayString>>

\* C10: no failure of a lifecycle operation is thrown past the manager.
C10_NoFailureThrown == lastOp.outcome # "thrown"

(***************************************************************************)
(* The note lifecycle: createNote, saveNote and deleteNote with canonical  *)
(* date-strings and two contents, every storage call able to fail, and the *)
(* user deleting files or the whole directory by hand.                     *)
(***************************************************************************)

LifeArgs == {S10, S14}

Contents == {"a", "b"}

NextLifecycle ==
  \/ Tick
  \/ \E forceRefresh \in BOOLEAN : ScanDirectory(forceRefresh)
  \/ \E dateString \in LifeArgs, content \in Contents,
        io \in {"none", "createFolder", "create"} :
       CreateNote(dateString, content, io)
  \/ \E dateString \in LifeArgs, content \in Contents, io \in {"none", "modify"} :
       SaveNote(dateString, content, io)
  \/ \E dateString \in LifeArgs, io \in {"none", "delete"} :
       DeleteNote(dateString, io)
  \/ \E dateString \in LifeArgs : NoteExists(dateString)
  \/ \E io \in {"none", "createFolder"} : EnsureDirectoryExists(io)
  \/ \E i \in 1..MaxFiles : ExternalDelete("daily-notes", i)
  \/ ExternalCreateFileAtPath("daily-notes")
  \/ ExternalRemovePath("daily-notes")

SpecLifecycle == Init /\ [][NextLifecycle]_vars

\* the child of the notes directory at the path of dateString's note
NoteChild(w, dateString) ==
  w.vault[w.path].children[
    ChildIndex(w.vault[w.path].children, NoteFileName(dateString))]

\* what is at the path of dateString's note: "file", "folder" or "none"
AtNotePath(w, dateString) ==
  AbstractFileAt(w.vault, w.path, NoteFileName(dateString))

\* the number of entries of the notes directory called as dateString's note
CountAtNotePath(w, dateString) ==
  Cardinality({i \in 1..Len(w.vault[w.path].children) :
                 w.vault[w.path].children[i].name = NoteFileName(dateString)})

(***************************************************************************)
(* The view over the manager: it is opened, refreshed and scrolled while   *)
(* notes are created and deleted outside the plugin.  The counts are the   *)
(* settings initialLoadCount and loadMoreCount at the time of the call.    *)
(***************************************************************************)

\* the method of the view answered r
ViewReturns(r, name) ==
  /\ WithinBound(r.w)
  /\ SetWorld(r.w)
  /\ view' = r.view
  /\ lastOp' = [Called(name) EXCEPT !.outcome = r.outcome]
  /\ UNCHANGED <<now, editors, probe, calls>>

OnOpen(io, initialLoadCount) ==
  /\ ViewReturns(onOpen(view, World, now, Today, io, initialLoadCount),
                 "onOpen")

Refresh(initialLoadCount) ==
  /\ view.opened
  /\ ViewReturns(refresh(view, World, now, Today, initialLoadCount), "refresh")

LoadMoreNotes(loadMoreCount) ==
  /\ view.opened
  /\ ViewReturns(loadMoreNotes(view, World, now, Today, loadMoreCount),
                 "loadMoreNotes")

NextView ==
  \/ Tick
  \/ \E io \in {"none", "create"}, initialLoadCount \in 1..MaxCount :
       OnOpen(io, initialLoadCount)
  \/ \E initialLoadCount \in 1..MaxCount : Refresh(initialLoadCount)
  \/ \E loadMoreCount \in 1..MaxCount : LoadMoreNotes(loadMoreCount)
  \/ ExternalCreateFolder("daily-notes")
  \/ \E entry \in NoteEntries : ExternalCreate("daily-notes", entry)
  \/ \E i \in 1..MaxFiles : ExternalDelete("daily-notes", i)

SpecView == Init /\ [][NextView]_vars

(***************************************************************************)
(* Paging without changes from outside: the directory is filled before the *)
(* view is opened; afterwards only the view acts and time passes.          *)
(***************************************************************************)
NextPaging ==
  \/ Tick
  \/ \E initialLoadCount \in 1..MaxCount : OnOpen("none", initialLoadCount)
  \/ \E initialLoadCount \in 1..MaxCount : Refresh(initialLoadCount)
  \/ \E loadMoreCount \in 1..MaxCount : LoadMoreNotes(loadMoreCount)
  \/ ~view.opened /\ ExternalCreateFolder("daily-notes")
  \/ \E entry \in NoteEntries :
       ~view.opened /\ ExternalCreate("daily-notes", entry)

SpecPaging == Init /\ [][NextPaging]_vars

(***************************************************************************)
(* The editors of the notes shown: renderNoteSection creates the editor of *)
(* a note, the user edits, the timer of the last edit fires and starts a   *)
(* save, and vault.modify returns.  The saves of vault.modify return in    *)
(* any order.                                                              *)
(***************************************************************************)

\* an editor step: the vault is v afterwards and the editor of dateString e
EditorStep(v, dateString, e) ==
  /\ vault' = v
  /\ editors' = [editors EXCEPT ![dateString] = e]
  /\ UNCHANGED <<path, cache, lastScanTime, now, lastOp, view, probe, calls>>

\* renderNoteSection of the i-th note shown, which has a file
RenderNoteSection(i) ==
  /\ view.opened
  /\ i \in 1..Len(view.notes)
  /\ view.notes[i].file # NoFile
  /\ ~editors[view.notes[i].dateString].open
  /\ EditorStep(vault, view.notes[i].dateString,
                createEditor(editors, view.notes[i].file,
                             view.notes[i].dateString,
                             view.notes[i].content)[view.notes[i].dateString])

\* the user types: the editor holds text and onChange runs
Edit(dateString, text) ==
  /\ editors[dateString].open
  /\ editors[dateString].text # text
  /\ EditorStep(vault, dateString, onChange(editors[dateString], text))

\* the timer set by the last edit fires and calls saveEditor
SaveTimeoutFires(dateString) ==
  /\ editors[dateString].timers > 0
  /\ Len(editors[dateString].writing) < MaxWrites
  /\ \E named \in BOOLEAN :
       /\ named => editors[dateString].saveTimeout
       /\ ~named => editors[dateString].timers
                      > (IF editors[dateString].saveTimeout THEN 1 ELSE 0)
       /\ EditorStep(vault, dateString,
                     saveEditor(TimerFired(editors[dateString], named)))

\* vault.modify of the k-th save awaited returns
ModifyReturns(dateString, k) ==
  /\ k \in 1..Len(editors[dateString].writing)
  /\ EditorStep(VaultModify(vault, editors[dateString].file,
                            editors[dateString].writing[k]),
                dateString, SaveReturned(editors[dateString], k))

NextEditor ==
  \/ \E initialLoadCount \in 1..MaxCount : OnOpen("none", initialLoadCount)
  \/ ExternalCreateFolder("daily-notes")
  \/ ExternalCreate("daily-notes", File(S10 \o MdExt))
  \/ \E i \in 1..MaxFiles : RenderNoteSection(i)
  \/ \E dateString \in ValidArgs, text \in Contents : Edit(dateString, text)
  \/ \E dateString \in ValidArgs : SaveTimeoutFires(dateString)
  \/ \E dateString \in ValidArgs, k \in 1..MaxWrites :
       ModifyReturns(dateString, k)

SpecEditor == Init /\ [][NextEditor]_vars

(***************************************************************************)
(* The editors are destroyed as well, while the user may still type and    *)
(* saves may be in flight.  Here the saves of vault.modify return in the   *)
(* order they were started in.                                             *)
(***************************************************************************)
DestroyEditor(dateString) ==
  /\ editors[dateString].open
  /\ editors[dateString].awaited = 0
  /\ Len(editors[dateString].writing) < MaxWrites
  /\ EditorStep(vault, dateString, destroyEditor(editors[dateString]))

NextDestroy ==
  \/ OnOpen("none", 1)
  \/ ExternalCreateFolder("daily-notes")
  \/ ExternalCreate("daily-notes", File(S10 \o MdExt))
  \/ RenderNoteSection(1)
  \/ \E text \in Contents : Edit(S10, text)
  \/ SaveTimeoutFires(S10)
  \/ ModifyReturns(S10, 1)
  \/ DestroyEditor(S10)

SpecDestroy == Init /\ [][NextDestroy]_vars

(***************************************************************************)
(* The functions of DateService and of the view that work on their         *)
(* arguments alone: a call starts from an argument drawn from the sets     *)
(* below, and each step applies a function to the argument or to the       *)
(* result of the step before.                                              *)
(***************************************************************************)

\* the years the dates are drawn from: the ends of the range parsing
\* accepts, the years next to them, leap years and common years
CodecYears == {1899, 1900, 2000, 2024, 2026, 2100, 2101}

CodecDates ==
  {<<n>> : n \in UNION {DaysFromCivil(y, 1, 1)..DaysFromCivil(y, 12, 31) :
                          y \in CodecYears}}

Argument(kind, arg) ==
  [kind |-> kind, arg |-> arg, fn |-> "none", result |-> arg]

\* n in decimal, zero-padded to width digits
Digits(n, width) == PadStart(NumToString(n), width, "0")

\* the strings handed to the parsers: a year part, a month part and a day
\* part, well-formed or not, joined by dashes or by dots, with or without
\* the extension
YearParts ==
  {Digits(y, 4) : y \in {1899, 1900, 2023, 2024, 2026, 2100, 2101}}
    \cup {Digits(26, 3), Digits(2026, 5)}

MonthParts == {Digits(m, 2) : m \in 0..13} \cup {Digits(1, 1), <<"x", "x">>}

DayParts ==
  {Digits(d, 2) : d \in {0, 1, 9, 10, 28, 29, 30, 31, 32}}
    \cup {Digits(1, 1), <<"0", "x">>}

ParseStrings ==
  {y \o sep \o m \o sep \o d \o tail :
     y \in YearParts, m \in MonthParts, d \in DayParts,
     sep \in {<<"-">>, <<".">>}, tail \in {<< >>, NOTE_FILE_EXTENSION}}

\* the date-strings put into the arrays to sort: days next to the ends of
\* months, years and centuries and to the changes of a digit's place
SortYMD ==
  {<<1900, 1, 1>>, <<1999, 12, 31>>, <<2000, 1, 1>>, <<2025, 12, 31>>,
   <<2026, 1, 1>>, <<2026, 1, 9>>, <<2026, 1, 10>>, <<2026, 1, 31>>,
   <<2026, 2, 1>>, <<2026, 9, 30>>, <<2026, 10, 1>>, <<2100, 12, 31>>}

SortStrings ==
  {Digits(ymd[1], 4) \o <<"-">> \o Digits(ymd[2], 2) \o <<"-">>
     \o Digits(ymd[3], 2) : ymd \in SortYMD}

MaxSortLen == 3

\* the arrays of up to maxLen distinct date-strings, in every order
SortArrays(maxLen) ==
  {a \in UNION {[1..n -> SortStrings] : n \in 0..maxLen} :
     \A i, j \in 1..Len(a) : a[i] = a[j] => i = j}

\* the lines of the contents handed to stripDateLineFromContent: empty,
\* blank, text, the date, the date indented, the date followed by text
ContentLines ==
  {<< >>, <<" ">>, <<"x">>, S14, <<" ">> \o S14, S14 \o <<"x">>}

MaxContentLines == 4

\* the contents of up to maxLines lines
ContentArguments(maxLines) ==
  {[content |-> join(lines), dateString |-> S14] :
     lines \in UNION {[1..n -> ContentLines] : n \in 1..maxLines}}

\* the days of a month, what date.getDate() hands to getOrdinalSuffix
DayNumbers == 1..31

MaxRangeCount == 3

\* a start date and a count for getDatesRange
RangeArguments ==
  {[startDate |-> date, count |-> count] :
     date \in CodecDates, count \in 0..MaxRangeCount}

\* the arguments the functions are applied to
ProbeInputs(maxSortLen, maxContentLines) ==
  {Argument("date", date) : date \in CodecDates}
    \cup {Argument("range", a) : a \in RangeArguments}
    \cup {Argument("day", day) : day \in DayNumbers}
    \cup {Argument("content", a) : a \in ContentArguments(maxContentLines)}
    \cup {Argument("string", s) : s \in ParseStrings}
    \cup {Argument("array", a) : a \in SortArrays(maxSortLen)}

InitPure ==
  /\ probe \in ProbeInputs(MaxSortLen, MaxContentLines)
  /\ vault = [d \in Dirs |-> [kind |-> "absent", children |-> << >>]]
  /\ path = "daily-notes"
  /\ cache = << >>
  /\ lastScanTime = 0
  /\ now = StartTime
  /\ lastOp = NoOp
  /\ view = NewView
  /\ editors = [dateString \in ValidArgs |-> NoEditor]
  /\ calls = [c \in CallIds |-> NoCall]

\* the function fn has answered result
Applied(fn, result) ==
  /\ probe' = [probe EXCEPT !.fn = fn, !.result = result]
  /\ UNCHANGED <<vault, path, cache, lastScanTime, now, lastOp, view, editors,
                 calls>>

GenerateFilename ==
  /\ probe.kind = "date" /\ probe.fn = "none"
  /\ Applied("generateFilename", generateFilename(probe.arg))

ParseDateFromFilename ==
  /\ \/ probe.fn = "generateFilename"
     \/ probe.kind = "string" /\ probe.fn = "none"
  /\ Applied("parseDateFromFilename", parseDateFromFilename(probe.result))

FormatDateToFileName ==
  /\ probe.kind = "date" /\ probe.fn = "none"
  /\ Applied("formatDateToFileName", formatDateToFileName(probe.arg))

ParseDateString ==
  /\ \/ probe.fn = "formatDateToFileName"
     \/ probe.kind = "string" /\ probe.fn = "none"
  /\ Applied("parseDateString", parseDateString(probe.result))

SortDateStringsDesc ==
  /\ probe.kind = "array"
  /\ probe.fn = "none"
  /\ Applied("sortDateStringsDesc", sortDateStringsDesc(probe.arg))

GetDatesRange ==
  /\ probe.kind = "range"
  /\ probe.fn = "none"
  /\ Applied("getDatesRange",
             getDatesRange(probe.arg.startDate, probe.arg.count))

StripDateLineFromContent ==
  /\ probe.kind = "content"
  /\ probe.fn = "none"
  /\ Applied("stripDateLineFromContent",
             stripDateLineFromContent(probe.arg.content, probe.arg.dateString))

GetOrdinalSuffix ==
  /\ probe.kind = "day"
  /\ probe.fn = "none"
  /\ Applied("getOrdinalSuffix", getOrdinalSuffix(probe.arg))

NextPure ==
  \/ GetOrdinalSuffix
  \/ StripDateLineFromContent
  \/ GetDatesRange
  \/ SortDateStringsDesc
  \/ GenerateFilename
  \/ ParseDateFromFilename
  \/ FormatDateToFileName
  \/ ParseDateString

SpecPure == InitPure /\ [][NextPure]_vars

(***************************************************************************)
(* The freshness window: the directory is scanned, forced or not, while    *)
(* time passes, the cache is cleared, notes are created through the        *)
(* manager and the directory is created, filled and removed from outside.  *)
(***************************************************************************)
NextFreshness ==
  \/ Tick
  \/ \E forceRefresh \in BOOLEAN : ScanDirectory(forceRefresh)
  \/ ClearCache
  \/ \E dateString \in ValidArgs : CreateNote(dateString, "a", "none")
  \/ \E entry \in NoteEntries : ExternalCreate("daily-notes", entry)
  \/ ExternalCreateFolder("daily-notes")
  \/ ExternalRemovePath("daily-notes")

SpecFreshness == Init /\ [][NextFreshness]_vars

(***************************************************************************)
(* Overlapping calls.  A call runs up to an await, is suspended there (pc  *)
(* names the await) and goes on when what it awaits returns; other calls   *)
(* run in between.  vault.createFolder and vault.create take effect when   *)
(* they return.  A file handle is the path of its file.                    *)
(***************************************************************************)
Suspended(call, pc) == [call EXCEPT !.pc = pc]

Done(call, result) == [call EXCEPT !.pc = "done", !.result = result]

\* createNote up to the first await of ensureDirectoryExists: the folder is
\* looked up, and vault.createFolder called when nothing is at the path
createNoteCalled(w, call, op, content) ==
  IF w.vault[getDailyNotesPath(w)].kind = "absent"
    THEN [call EXCEPT !.pc = "createFolder", !.op = op, !.content = content]
    ELSE [call EXCEPT !.pc = "ensured", !.op = op, !.content = content,
                      !.dirOk = (w.vault[getDailyNotesPath(w)].kind = "folder")]

\* vault.createFolder returns to ensureDirectoryExists
CreateFolderReturned(w, call) ==
  IF w.vault[getDailyNotesPath(w)].kind = "absent"
    THEN [w |-> [w EXCEPT !.vault[getDailyNotesPath(w)] =
                            [kind |-> "folder", children |-> << >>]],
          call |-> [call EXCEPT !.pc = "ensured", !.dirOk = TRUE]]
    ELSE [w |-> w, call |-> [call EXCEPT !.pc = "ensured", !.dirOk = FALSE]]

\* createNote behind `await this.ensureDirectoryExists()`: the path of the
\* note is looked up, and vault.create called when nothing is there
createNoteEnsured(w, call, dateString) ==
  IF ~call.dirOk THEN Done(call, "permissionDenied")
  ELSE IF AbstractFileAt(w.vault, getDailyNotesPath(w),
                         NoteFileName(dateString)) # "none"
    THEN Done(call, "File already exists")
  ELSE Suspended(call, "create")

\* vault.create adding its file whatever is at the path
VaultCreateReturnedAppending(w, call, dateString, overwrites) ==
  IF w.vault[getDailyNotesPath(w)].kind # "folder"
    THEN [w |-> w, call |-> Done(call, "thrown")]
  ELSE [w |-> [w EXCEPT
                 !.vault = VaultCreate(w.vault, getDailyNotesPath(w),
                                       NoteFileName(dateString), call.content),
                 !.cache = MapSet(w.cache, dateString,
                                  TFile(getDailyNotesPath(w),
                                        NoteFileName(dateString)))],
        call |-> Done(call, "success")]

\* vault.create returns to createNote, which registers the file in the
\* cache.  It has thrown if the folder is gone.  If a file has come to the
\* path since createNote looked, it has either thrown or (overwrites)
\* written over that file and returned it.
VaultCreateReturned(w, call, dateString, overwrites) ==
  IF w.vault[getDailyNotesPath(w)].kind # "folder"
    THEN [w |-> w, call |-> Done(call, "thrown")]
  ELSE IF AbstractFileAt(w.vault, getDailyNotesPath(w),
                         NoteFileName(dateString)) = "none"
    THEN [w |-> [w EXCEPT
                   !.vault = VaultCreate(w.vault, getDailyNotesPath(w),
                                         NoteFileName(dateString),
                                         call.content),
                   !.cache = MapSet(w.cache, dateString,
                                    TFile(getDailyNotesPath(w),
                                          NoteFileName(dateString)))],
          call |-> Done(call, "success")]
  ELSE IF overwrites
    THEN [w |-> CreateInDirectoryOverwriting(
                  w, TRUE, getDailyNotesPath(w), NoteFileName(dateString),
                  dateString, call.content, "none").w,
          call |-> Done(call, "overwritten")]
  ELSE [w |-> w, call |-> Done(call, "thrown")]

\* getOrCreateTodayNote behind `await this.scanDirectory()`: today's note
\* is loaded if the scan returned its date-string, and created otherwise
TodayScanReturned(w, call, nowT, today) ==
  IF Includes(call.dates, Formatted(today))
    THEN [w |-> loadNotes(w, nowT, 1, today, NoString).w,
          call |-> Done(call, "returned")]
    ELSE [w |-> w,
          call |-> createNoteCalled(w, call, "getOrCreateTodayNote",
                                    DEFAULT_NOTE_TEMPLATE)]

\* a step of the call c
CallStep(c, w, call) ==
  /\ SetWorld(w)
  /\ calls' = [calls EXCEPT ![c] = call]
  /\ UNCHANGED <<now, lastOp, view, editors, probe>>

NoCallMade == \A c \in CallIds : calls[c].pc = "idle"

CallCreateNote(c, content) ==
  /\ calls[c].pc = "idle"
  /\ CallStep(c, World, createNoteCalled(World, calls[c], "createNote", content))

CallGetOrCreateTodayNote(c) ==
  /\ calls[c].pc = "idle"
  /\ CallStep(c, scanDirectory(World, now, FALSE).w,
              [calls[c] EXCEPT !.pc = "scanned",
                               !.op = "getOrCreateTodayNote",
                               !.dates = scanDirectory(World, now, FALSE).dates])

TodayScanReturns(c) ==
  /\ calls[c].pc = "scanned"
  /\ CallStep(c, TodayScanReturned(World, calls[c], now, Today).w,
              TodayScanReturned(World, calls[c], now, Today).call)

CreateFolderReturns(c) ==
  /\ calls[c].pc = "createFolder"
  /\ CallStep(c, CreateFolderReturned(World, calls[c]).w,
              CreateFolderReturned(World, calls[c]).call)

EnsureReturns(c) ==
  /\ calls[c].pc = "ensured"
  /\ CallStep(c, World, createNoteEnsured(World, calls[c], TodayString))

VaultCreateReturns(c, overwrites) ==
  /\ calls[c].pc = "create"
  /\ CallStep(c, VaultCreateReturned(World, calls[c], TodayString,
                                     overwrites).w,
              VaultCreateReturned(World, calls[c], TodayString,
                                  overwrites).call)

\* two calls for today's note overlap; the directory is prepared from
\* outside before the first of them is made
NextOverlap ==
  \/ Tick
  \/ \E c \in CallIds, content \in Contents : CallCreateNote(c, content)
  \/ \E c \in CallIds : CallGetOrCreateTodayNote(c)
  \/ \E c \in CallIds : TodayScanReturns(c)
  \/ \E c \in CallIds : CreateFolderReturns(c)
  \/ \E c \in CallIds : EnsureReturns(c)
  \/ \E c \in CallIds, overwrites \in BOOLEAN :
       VaultCreateReturns(c, overwrites)
  \/ NoCallMade /\ ExternalCreateFolder("daily-notes")
  \/ NoCallMade /\ ExternalCreateFileAtPath("daily-notes")
  \/ \E entry \in NoteEntries :
       NoCallMade /\ ExternalCreate("daily-notes", entry)

SpecOverlap == Init /\ [][NextOverlap]_vars

(***************************************************************************)
(* A loadNotes call in flight.  The scan and the slice of loadNotes run    *)
(* when it is called; its loop is suspended at each `await vault.read`,    *)
(* holding the file it took from the cache (the note at the end of         *)
(* call.notes, its content not yet read).  call.dates are the date-strings *)
(* still to load, the one being read first.  Other calls of the manager    *)
(* and the handlers of vault events run between two reads.                 *)
(***************************************************************************)

\* the loop of loadNotes up to its next `await this.vault.read(file)`: a
\* date-string without a cached file gets its note at once, with file null
RECURSIVE LoadUntilRead(_, _, _)
LoadUntilRead(w, dates, notes) ==
  IF dates = << >> THEN [dates |-> << >>, notes |-> notes]
  ELSE IF parseDateString(Head(dates)) = Null
    THEN LoadUntilRead(w, Tail(dates), notes)
  ELSE IF MapGet(w.cache, Head(dates)) = NoFile
    THEN LoadUntilRead(w, Tail(dates),
                       Append(notes, Note(parseDateString(Head(dates)),
                                          Head(dates), "", NoFile)))
  ELSE [dates |-> dates,
        notes |-> Append(notes, Note(parseDateString(Head(dates)),
                                     Head(dates), "",
                                     MapGet(w.cache, Head(dates))))]

\* the call after the loop has run to its next read, or to its end
LoadSuspended(call, loop) ==
  [call EXCEPT !.op = "loadNotes",
               !.pc = IF loop.dates = << >> THEN "done" ELSE "read",
               !.result = IF loop.dates = << >> THEN "returned" ELSE "none",
               !.dates = loop.dates,
               !.notes = loop.notes]

\* loadNotes from its call to the first read
loadNotesCalled(call, scan, count, startDateString) ==
  LoadSuspended(call,
                LoadUntilRead(scan.w,
                              Slice(FilterDates(scan.dates, startDateString),
                                    count),
                              << >>))

\* vault.read returns: the content ("" when the read threw) goes into the
\* note of the file that was read, and the loop goes on
VaultReadReturned(w, call) ==
  LoadSuspended(call,
                LoadUntilRead(w, Tail(call.dates),
                              [call.notes EXCEPT ![Len(call.notes)].content =
                                 LoadContent(w.vault,
                                             call.notes[Len(call.notes)].file,
                                             FALSE)]))

CallLoadNotes(c, count, startDate) ==
  /\ calls[c].pc = "idle"
  /\ CallStep(c, scanDirectory(World, now, FALSE).w,
              loadNotesCalled(calls[c], scanDirectory(World, now, FALSE),
                              count, Formatted(startDate)))

VaultReadReturns(c) ==
  /\ calls[c].pc = "read"
  /\ CallStep(c, World, VaultReadReturned(World, calls[c]))

\* the caller takes the notes; the next loadNotes can be called
LoadNotesTaken(c) ==
  /\ calls[c].op = "loadNotes"
  /\ calls[c].pc = "done"
  /\ CallStep(c, World, NoCall)

NextInFlight ==
  \/ Tick
  \/ \E count \in 1..MaxCount : CallLoadNotes(1, count, Today)
  \/ VaultReadReturns(1)
  \/ LoadNotesTaken(1)
  \/ \E dateString \in LifeArgs : DeleteNote(dateString, "none")
  \/ \E dailyNotesPath \in Dirs : UpdateSettings(dailyNotesPath)
  \/ \E dir \in Dirs : ExternalCreateFolder(dir)
  \/ \E dir \in Dirs, entry \in NoteEntries : ExternalCreate(dir, entry)
  \/ \E dir \in Dirs, i \in 1..MaxFiles : ExternalDelete(dir, i)

SpecInFlight == Init /\ [][NextInFlight]_vars

(***************************************************************************)
(* Page loads of the view in flight.  loadInitialNotes and loadMoreNotes   *)
(* set isLoading and are suspended at `await this.manager.loadNotes`; the  *)
(* page is the one loadNotes answers when the load goes on, which then     *)
(* writes notes and hasMoreToLoad and resets isLoading.  The scroll        *)
(* handler and the refresh command run while a load is suspended.          *)
(* call.dates holds the startDate of the request, call.count its count.    *)
(***************************************************************************)

LoadRequested(call, op, count, startDate) ==
  [call EXCEPT !.pc = "loading", !.op = op, !.count = count,
               !.dates = <<Formatted(startDate)>>]

\* what an in-flight load writes when loadNotes has answered
PageLoaded(v, call, load) ==
  IF call.op = "loadInitialNotes"
    THEN InitialLoaded(v, load, call.count)
    ELSE MoreLoaded(v, load, call.count)

ViewStep(c, w, v, call, name) ==
  /\ SetWorld(w)
  /\ view' = v
  /\ calls' = [calls EXCEPT ![c] = call]
  /\ lastOp' = Called(name)
  /\ UNCHANGED <<now, editors, probe>>

\* the refresh command: loadInitialNotes sets isLoading without reading it
RefreshCalled(c, initialLoadCount) ==
  /\ view.opened
  /\ calls[c].pc = "idle"
  /\ ViewStep(c, World, [view EXCEPT !.isLoading = TRUE],
              LoadRequested(calls[c], "loadInitialNotes", initialLoadCount,
                            Today),
              "refresh")

\* the scroll handler near the bottom: loadMoreNotes returns at once while
\* isLoading is set or nothing more is to load
ScrollCalled(c, loadMoreCount) ==
  /\ view.opened
  /\ calls[c].pc = "idle"
  /\ IF view.isLoading \/ ~view.hasMoreToLoad
       THEN ViewStep(c, World, view, calls[c], "loadMoreNotes")
       ELSE ViewStep(c, World, [view EXCEPT !.isLoading = TRUE],
                     LoadRequested(calls[c], "loadMoreNotes", loadMoreCount,
                                   OldestDate(view, Today)),
                     "loadMoreNotes")

LoadNotesReturns(c) ==
  /\ calls[c].pc = "loading"
  /\ ViewStep(c,
              PageLoaded(view, calls[c],
                         LoadScanned(scanDirectory(World, now, FALSE),
                                     calls[c].count, calls[c].dates[1],
                                     NoString)).w,
              PageLoaded(view, calls[c],
                         LoadScanned(scanDirectory(World, now, FALSE),
                                     calls[c].count, calls[c].dates[1],
                                     NoString)).view,
              NoCall, calls[c].op)

NextLoading ==
  \/ Tick
  \/ \E initialLoadCount \in 1..MaxCount : OnOpen("none", initialLoadCount)
  \/ \E c \in CallIds, initialLoadCount \in 1..MaxCount :
       RefreshCalled(c, initialLoadCount)
  \/ \E c \in CallIds, loadMoreCount \in 1..MaxCount :
       ScrollCalled(c, loadMoreCount)
  \/ \E c \in CallIds : LoadNotesReturns(c)
  \/ ~view.opened /\ ExternalCreateFolder("daily-notes")
  \/ \E entry \in NoteEntries :
       ~view.opened /\ ExternalCreate("daily-notes", entry)

SpecLoading == Init /\ [][NextLoading]_vars

(***************************************************************************)
(* The reading methods of the manager on their own, with the directory     *)
(* and its files coming and going outside the plugin.                      *)
(***************************************************************************)
NextReading ==
  \/ Tick
  \/ \E count \in 1..MaxCount, startDate \in CursorDates :
       LoadNotes(count, startDate)
  \/ \E dateString \in LifeArgs : NoteExists(dateString)
  \/ \E dateString \in LifeArgs : ReadNote(dateString)
  \/ ExternalCreateFolder("daily-notes")
  \/ \E entry \in NoteEntries : ExternalCreate("daily-notes", entry)
  \/ \E i \in 1..MaxFiles : ExternalDelete("daily-notes", i)
  \/ ExternalRemovePath("daily-notes")

SpecReading == Init /\ [][NextReading]_vars

(***************************************************************************)
(* Claims C11 - C20                                                        *)
(***************************************************************************)

\* C11: createNote answers "File already exists" when something is at the
\* note's path, and then leaves the vault and the cache as they were;
\* otherwise, when the storage does not fail, it makes sure the directory
\* exists, creates the file with the content given, registers its handle in
\* the cache under dateString and answers success with that handle.
C11_CreateOrAlreadyExists ==
  \A dateString \in LifeArgs, content \in Contents :
    LET r == createNote(World, dateString, content, "none")
        handle == TFile(path, NoteFileName(dateString))
    IN  IF AtNotePath(World, dateString) # "none"
          THEN /\ ~r.success
               /\ r.error = "File already exists"
               /\ r.w = World
        ELSE (vault[path].kind # "file") =>
               /\ r.success
               /\ r.file = handle
               /\ r.w.vault[path].kind = "folder"
               /\ CountAtNotePath(r.w, dateString) = 1
               /\ NoteChild(r.w, dateString).isFile
               /\ NoteChild(r.w, dateString).content = content
               /\ Len(r.w.vault[path].children) = Len(vault[path].children) + 1
               /\ \A i \in 1..Len(vault[path].children) :
                    r.w.vault[path].children[i] = vault[path].children[i]
               /\ MapGet(r.w.cache, dateString) = handle
               /\ \A k \in Range(MapKeys(cache)) \ {dateString} :
                    MapGet(r.w.cache, k) = MapGet(cache, k)

\* createNote has just created a note next to an older one, and a second
\* createNote for either date would answer that the file exists
C11_Witness ==
  /\ lastOp.op = "createNote"
  /\ \A dateString \in LifeArgs :
       /\ AtNotePath(World, dateString) = "file"
       /\ MapHas(cache, dateString)
       /\ ~createNote(World, dateString, "b", "none").success


\* C12: saveNote without a cached handle, nothing being at the note's path
\* and the storage not failing, creates the file; saveNote with a cached
\* handle whose file is there overwrites it in place; and after every
\* successful saveNote exactly one entry of the directory is the note's
\* file, its content is the content saved, and the cache maps the
\* date-string to it.
C12_SaveCreatesThenOverwrites ==
  \A dateString \in LifeArgs, content \in Contents :
    LET r == saveNote(World, dateString, content, "none")
        handle == TFile(path, NoteFileName(dateString))
    IN  /\ (/\ ~MapHas(cache, dateString)
             /\ AtNotePath(World, dateString) = "none"
             /\ vault[path].kind # "file") =>
               /\ r.success
               /\ Len(r.w.vault[path].children) = Len(vault[path].children) + 1
        /\ (/\ MapHas(cache, dateString)
             /\ AtNotePath(World, dateString) = "file") =>
               /\ r.success
               /\ Len(r.w.vault[path].children) = Len(vault[path].children)
               /\ \A i \in 1..Len(vault[path].children) :
                    r.w.vault[path].children[i].name = vault[path].children[i].name
               /\ r.w.cache = cache
        /\ r.success =>
               /\ CountAtNotePath(r.w, dateString) = 1
               /\ NoteChild(r.w, dateString).isFile
               /\ NoteChild(r.w, dateString).content = content
               /\ MapGet(r.w.cache, dateString) = handle
               /\ r.file = handle

\* saveNote has just returned, the note's file holds "a" and has its
\* handle in the cache, and saving "b" succeeds
C12_Witness ==
  /\ lastOp.op = "saveNote"
  /\ MapHas(cache, S14)
  /\ AtNotePath(World, S14) = "file"
  /\ NoteChild(World, S14).content = "a"
  /\ saveNote(World, S14, "b", "none").success

\* the cache holds a handle for dateString and nothing is at the handle's
\* path in the vault
StaleHandle(w, dateString) ==
  /\ MapHas(w.cache, dateString)
  /\ AbstractFileAt(w.vault, MapGet(w.cache, dateString).dir,
                    MapGet(w.cache, dateString).name) = "none"

\* C13: when the cache holds a handle for the date-string whose file is no
\* longer in the vault, saveNote removes the entry and delegates to
\* createNote: on success the cache maps the date-string to the handle of a
\* file that is in the vault with the content saved, on failure the cache
\* holds no entry for the date-string; the other entries stay as they were.
C13_StaleHandleRecreated ==
  \A dateString \in LifeArgs, content \in Contents,
     io \in {"none", "createFolder", "create", "modify"} :
    StaleHandle(World, dateString) =>
      LET r == saveNote(World, dateString, content, io)
      IN  /\ r = createNote([World EXCEPT !.cache = MapDelete(cache, dateString)],
                            dateString, content, io)
          /\ r.success =>
                /\ MapGet(r.w.cache, dateString)
                     = TFile(path, NoteFileName(dateString))
                /\ r.file = TFile(path, NoteFileName(dateString))
                /\ CountAtNotePath(r.w, dateString) = 1
                /\ NoteChild(r.w, dateString).isFile
                /\ NoteChild(r.w, dateString).content = content
          /\ ~r.success =>
                /\ ~MapHas(r.w.cache, dateString)
                /\ AtNotePath(r.w, dateString) = "none"
          /\ \A other \in LifeArgs \ {dateString} :
                /\ MapHas(r.w.cache, other) = MapHas(cache, other)
                /\ MapGet(r.w.cache, other) = MapGet(cache, other)

\* saveNote has just re-created the note of S14 in a directory that was
\* removed, the handle of S10 is still stale, and a save of S10 in which
\* vault.create fails leaves no entry for S10
C13_Witness ==
  /\ lastOp.op = "saveNote"
  /\ StaleHandle(World, S10)
  /\ MapHas(cache, S14)
  /\ AtNotePath(World, S14) = "file"
  /\ ~saveNote(World, S10, "b", "create").success
  /\ saveNote(World, S10, "b", "none").success

\* C14: deleteNote without a cached handle for the date-string fails with
\* "File not found" and changes nothing; with a cached handle whose file is
\* in the vault, and vault.delete not failing, it removes the file and the
\* cache entry and nothing else, and a noteExists called right after
\* answers false, from the cache when the last scan is still fresh.
C14_DeleteThenNotExists ==
  \A dateString \in LifeArgs :
    /\ ~MapHas(cache, dateString) =>
          \A io \in {"none", "delete"} :
            /\ ~deleteNote(World, dateString, io).success
            /\ deleteNote(World, dateString, io).error = "File not found"
            /\ deleteNote(World, dateString, io).w = World
    /\ (MapHas(cache, dateString) /\ ~StaleHandle(World, dateString)) =>
          LET r == deleteNote(World, dateString, "none")
              after == noteExists(r.w, now, dateString)
          IN  /\ r.success
              /\ AtNotePath(r.w, dateString) = "none"
              /\ ~MapHas(r.w.cache, dateString)
              /\ Len(r.w.vault[path].children) = Len(vault[path].children) - 1
              /\ \A other \in LifeArgs \ {dateString} :
                    /\ AtNotePath(r.w, other) = AtNotePath(World, other)
                    /\ MapHas(r.w.cache, other) = MapHas(cache, other)
              /\ ~after.exists
              /\ now - lastScanTime < FRESHNESS_MS => after.how = "cache"

\* deleteNote has just returned, the note of S14 is gone from the vault and
\* from the cache while that of S10 is in both, the last scan is fresh, and
\* deleting S10 succeeds while deleting S14 again is "File not found"
C14_Witness ==
  /\ lastOp.op = "deleteNote"
  /\ now - lastScanTime < FRESHNESS_MS
  /\ ~MapHas(cache, S14)
  /\ AtNotePath(World, S14) = "none"
  /\ MapHas(cache, S10)
  /\ AtNotePath(World, S10) = "file"
  /\ deleteNote(World, S10, "none").success
  /\ deleteNote(World, S14, "none").error = "File not found"

\* the keys of the cache are the date-strings of the dated note files in
\* the notes directory
CacheMatchesDirectory(w) ==
  Range(MapKeys(w.cache)) =
    IF w.vault[w.path].kind = "folder"
      THEN DatedNotesIn(w.vault, w.path) ELSE {}

\* C15: a createNote, saveNote or deleteNote call for a canonical date-string
\* (LifeArgs), made when the keys of the cache are the date-strings of the dated note files in the directory
\* leaves them so, whether the call succeeds or fails.
C15_IncrementalCacheStaysExact ==
  [][(/\ CacheMatchesDirectory(World)
      /\ lastOp'.op \in {"createNote", "saveNote", "deleteNote"})
       => CacheMatchesDirectory(World')]_vars

\* after a scan within the freshness window and calls of the three
\* operations, the last one a deleteNote, the cache and the directory hold
\* the note of S10 and not that of S14
C15_Witness ==
  /\ lastOp.op = "deleteNote"
  /\ lastScanTime > 0
  /\ now - lastScanTime < FRESHNESS_MS
  /\ CacheMatchesDirectory(World)
  /\ MapHas(cache, S10)
  /\ NoteChild(World, S10).content = "b"
  /\ ~MapHas(cache, S14)

\* C16: when a create, delete or rename event for a path under the notes
\* directory has been handled, the keys of the cache are the date-strings of
\* the dated note files in the directory, whatever the age of the last scan
\* and also when the event removed the directory itself.
C16_EventsKeepCacheExact ==
  lastOp.op = "vaultEvent" => CacheMatchesDirectory(World)

\* C17: when the notes directory is missing, or the path names something
\* that is not a folder, scanDirectory answers the empty list, on a forced
\* call and on a call that is not forced.
C17_MissingDirectoryScansEmpty ==
  (vault[path].kind # "folder") =>
    \A forceRefresh \in BOOLEAN :
      scanDirectory(World, now, forceRefresh).dates = << >>

\* C18: when the read of one selected note fails, loadNotes still returns
\* one record for each selected date-string, in the order selected; the
\* record of the note whose read failed has the empty content, and the
\* other records are those of a call in which no read fails.
C18_ReadFailureIsolated ==
  \A count \in 1..MaxCount, startDate \in CursorDates, badRead \in ValidArgs :
    LET good == Page(count, startDate)
        bad == loadNotes(World, now, count, startDate, badRead)
    IN  /\ bad.w = good.w
        /\ DateStringsOf(bad.notes)
             = Slice(FilterDates(bad.known, formatDateToFileName(startDate)),
                     count)
        /\ Len(bad.notes) = Len(good.notes)
        /\ \A i \in 1..Len(bad.notes) :
             IF bad.notes[i].dateString = badRead
               THEN bad.notes[i] = [good.notes[i] EXCEPT !.content = ""]
               ELSE bad.notes[i] = good.notes[i]

\* the view has loaded its first page through loadNotes, and here a page of
\* two notes with content keeps both records when the read of today's note
\* fails, that of today with the empty content
C18_Witness ==
  /\ lastOp.op = "refresh"
  /\ \E startDate \in CursorDates :
       /\ Len(Page(2, startDate).notes) = 2
       /\ \A i \in 1..2 : Page(2, startDate).notes[i].content = "a"
       /\ \E i \in 1..2 :
            /\ Page(2, startDate).notes[i].dateString = TodayString
            /\ loadNotes(World, now, 2, startDate, TodayString).notes[i].content
                 = ""

\* C19: a load sets hasMoreToLoad to whether the page has as many records as
\* were asked for: loadInitialNotes always, loadMoreNotes when it asks
\* loadNotes, an empty page setting it to false and leaving the notes as
\* they were; and while hasMoreToLoad is false loadMoreNotes asks loadNotes
\* nothing and changes nothing, until refresh loads the first page again.
C19_ExhaustionFromPageLength ==
  \A count \in 1..MaxCount :
    LET first == refresh(view, World, now, Today, count)
        more == loadMoreNotes(view, World, now, Today, count)
    IN  /\ first.requested
        /\ first.view.hasMoreToLoad = (Len(first.page) = count)
        /\ first.view.notes = first.page
        /\ view.hasMoreToLoad =>
              /\ more.requested
              /\ more.view.hasMoreToLoad = (Len(more.page) = count)
              /\ more.view.notes = view.notes \o more.page
        /\ ~view.hasMoreToLoad =>
              /\ ~more.requested
              /\ more.view = view
              /\ more.w = World

\* the view shows the two notes there are, a loadMoreNotes has just got an
\* empty page and set hasMoreToLoad to false, and the next one asks nothing
C19_Witness ==
  /\ lastOp.op = "loadMoreNotes"
  /\ lastOp.outcome = "empty"
  /\ ~view.hasMoreToLoad
  /\ Len(view.notes) = 2
  /\ Len(cache) = 2
  /\ ~loadMoreNotes(view, World, now, Today, 1).requested
  /\ refresh(view, World, now, Today, 2).view.hasMoreToLoad

\* C20: the notes of an opened view are ordered newest first, no date-string
\* twice, and when onOpen returns, today's note having been found or
\* created, it is the first of them.
C20_TimelineNewestFirst ==
  view.opened =>
    /\ StrictlyDescending(DateStringsOf(view.notes))
    /\ (lastOp.op = "onOpen" /\ lastOp.outcome \in {"returned", "created"}) =>
          /\ Len(view.notes) > 0
          /\ view.notes[1].dateString = TodayString

(***************************************************************************)
(* Claims C21 - C30                                                        *)
(***************************************************************************)

\* the file of the editor of dateString holds what the editor holds
FileHoldsText(dateString) ==
  VaultRead(vault, editors[dateString].file, FALSE)
    = [ok |-> TRUE, content |-> editors[dateString].text]

\* C21: for every editor whose timer has fired and whose saves have all
\* returned, the file holds the content of the editor and isDirty is false,
\* also after an edit made while a save was awaiting vault.modify.
C21_QuiescentEditorIsSaved ==
  \A dateString \in ValidArgs :
    (/\ editors[dateString].open
     /\ ~editors[dateString].saveTimeout
     /\ editors[dateString].writing = << >>) =>
       /\ ~editors[dateString].isDirty
       /\ FileHoldsText(dateString)

\* C22: a second saveNote of the same date-string and content answers as
\* the first and leaves the vault and the cache as the first left them; when
\* nothing is at the note's path or the cache holds its file, both succeed
\* with the same handle.
C22_SaveTwiceIsSaveOnce ==
  \A dateString \in LifeArgs, content \in Contents :
    LET once == saveNote(World, dateString, content, "none")
        twice == saveNote(once.w, dateString, content, "none")
    IN  /\ twice.w = once.w
        /\ twice.success = once.success
        /\ once.success => twice.file = once.file
        /\ (/\ vault[path].kind # "file"
            /\ \/ AtNotePath(World, dateString) = "none"
               \/ (MapHas(cache, dateString)
                     /\ AtNotePath(World, dateString) = "file")) =>
              once.success

\* saveNote has been called, the note of S14 holds "a" and is cached, and
\* saving "b" changes the vault the first time and succeeds twice
C22_Witness ==
  /\ lastOp.op = "saveNote"
  /\ MapHas(cache, S14)
  /\ AtNotePath(World, S14) = "file"
  /\ NoteChild(World, S14).content = "a"
  /\ saveNote(World, S14, "b", "none").w.vault # vault
  /\ saveNote(saveNote(World, S14, "b", "none").w, S14, "b", "none").success

\* C23: ensureDirectoryExists creates the folder when nothing is at the
\* path, answers true and changes nothing when the folder is there, answers
\* false and changes nothing when something else is at the path or when
\* vault.createFolder fails; a second call answers as the first and changes
\* nothing.
C23_EnsureDirectoryIdempotent ==
  LET r == ensureDirectoryExists(World, "none")
  IN  /\ (vault[path].kind = "absent") =>
            /\ r.ok
            /\ r.w = [World EXCEPT !.vault[path] =
                                     [kind |-> "folder", children |-> << >>]]
            /\ ensureDirectoryExists(World, "createFolder")
                 = [w |-> World, ok |-> FALSE]
      /\ (vault[path].kind = "folder") => r = [w |-> World, ok |-> TRUE]
      /\ (vault[path].kind = "file") => r = [w |-> World, ok |-> FALSE]
      /\ ensureDirectoryExists(r.w, "none") = r

\* ensureDirectoryExists has been called and the folder holds a note: the
\* next call changes nothing
C23_Witness ==
  /\ lastOp.op = "ensureDirectoryExists"
  /\ vault[path].kind = "folder"
  /\ Len(vault[path].children) > 0
  /\ ensureDirectoryExists(World, "none").ok

\* C24: for every date in the years 1900 to 2100, parseDateFromFilename of
\* generateFilename of the date, and parseDateString of
\* formatDateToFileName of the date, is a date with the same year, month
\* and day.
C24_CodecRoundTrip ==
  (/\ probe.kind = "date"
   /\ probe.fn \in {"parseDateFromFilename", "parseDateString"}
   /\ getFullYear(probe.arg) \in 1900..2100) =>
     /\ probe.result # Null
     /\ getFullYear(probe.result) = getFullYear(probe.arg)
     /\ getMonth(probe.result) = getMonth(probe.arg)
     /\ getDate(probe.result) = getDate(probe.arg)

\* the file name of 29 February 2024 has been parsed back
C24_Witness ==
  /\ probe.fn = "parseDateFromFilename"
  /\ probe.arg = NewDate(2024, 1, 29)
  /\ probe.result = probe.arg

\* the date a canonical date-string names
DateNamed(s) ==
  NewDate(1000 * DigitVal(s[1]) + 100 * DigitVal(s[2]) + 10 * DigitVal(s[3])
            + DigitVal(s[4]),
          10 * DigitVal(s[6]) + DigitVal(s[7]) - 1,
          10 * DigitVal(s[9]) + DigitVal(s[10]))

\* C25: a string parseDateString accepts is a zero-padded YYYY-MM-DD naming
\* a day of the calendar in a year of 1900 to 2100, and the date returned
\* is that day; a string parseDateFromFilename accepts is such a string
\* followed by ".md".  Month 00 or 13, day 00, 30 February, 31 April and
\* 29 February of a common year are rejected.
C25_ParseAcceptsOnlyCanonical ==
  /\ (/\ probe.kind = "string"
      /\ probe.fn = "parseDateString"
      /\ probe.result # Null) =>
        /\ ValidDateString(probe.arg)
        /\ probe.result = DateNamed(probe.arg)
  /\ (/\ probe.kind = "string"
      /\ probe.fn = "parseDateFromFilename"
      /\ probe.result # Null) =>
        /\ Len(probe.arg) = 13
        /\ SubSeq(probe.arg, 11, 13) = NOTE_FILE_EXTENSION
        /\ ValidDateString(SubSeq(probe.arg, 1, 10))
        /\ probe.result = DateNamed(probe.arg)

\* parseDateString has rejected 2023-02-29
C25_Witness ==
  /\ probe.kind = "string"
  /\ probe.fn = "parseDateString"
  /\ probe.arg = Digits(2023, 4) \o <<"-">> \o Digits(2, 2) \o <<"-">>
                   \o Digits(29, 2)
  /\ probe.result = Null

\* C26: sortDateStringsDesc applied to distinct valid date-strings returns
\* them in lexicographically descending order (the same strings, each
\* string greater than the next), and on any two of them the string
\* comparison answers as the comparison of their parsed dates.
C26_LexicalOrderIsDateOrder ==
  (probe.kind = "array" /\ probe.fn = "sortDateStringsDesc") =>
    /\ Len(probe.result) = Len(probe.arg)
    /\ Range(probe.result) = Range(probe.arg)
    /\ \A i, j \in 1..Len(probe.result) :
         i < j => ~LexLeq(probe.result[i], probe.result[j])
    /\ \A i, j \in 1..Len(probe.arg) :
         LexLeq(probe.arg[i], probe.arg[j])
           <=> compareDates(parseDateString(probe.arg[i]),
                            parseDateString(probe.arg[j])) <= 0

\* an array of three date-strings given in ascending order has been sorted
C26_Witness ==
  /\ probe.kind = "array"
  /\ probe.fn = "sortDateStringsDesc"
  /\ Len(probe.arg) = 3
  /\ ~LexLeq(probe.arg[2], probe.arg[1])
  /\ ~LexLeq(probe.arg[3], probe.arg[2])
  /\ \A s \in Range(probe.arg) : ValidDateString(s)

\* the calendar day before the day year-month-day, by the calendar's rules
DayBefore(year, month, day) ==
  IF day > 1 THEN [year |-> year, month |-> month, day |-> day - 1]
  ELSE IF month > 1
    THEN [year |-> year, month |-> month - 1,
          day |-> DaysInMonth(year, month - 1)]
  ELSE [year |-> year - 1, month |-> 12, day |-> 31]

Civil(date) ==
  [year |-> getFullYear(date), month |-> getMonth(date) + 1,
   day |-> getDate(date)]

\* C27: getDatesRange(startDate, count) returns count dates, the first the
\* day of startDate and every other one the calendar day before its
\* predecessor.
C27_RangeIsConsecutiveDays ==
  (probe.kind = "range" /\ probe.fn = "getDatesRange") =>
    /\ Len(probe.result) = probe.arg.count
    /\ probe.arg.count > 0 => probe.result[1] = probe.arg.startDate
    /\ \A k \in 1..(Len(probe.result) - 1) :
         Civil(probe.result[k + 1])
           = DayBefore(getFullYear(probe.result[k]),
                       getMonth(probe.result[k]) + 1,
                       getDate(probe.result[k]))

\* a range of MaxRangeCount dates from 1 March of a leap year has been
\* built, its second date 29 February
C27_Witness ==
  /\ probe.kind = "range"
  /\ probe.fn = "getDatesRange"
  /\ probe.arg.count = MaxRangeCount
  /\ Civil(probe.arg.startDate) = [year |-> 2024, month |-> 3, day |-> 1]
  /\ Civil(probe.result[2]) = [year |-> 2024, month |-> 2, day |-> 29]

IsBlankLine(line) == trim(line) = << >>

\* the indexes of the lines that are not blank
NonBlank(lines) == {i \in 1..Len(lines) : ~IsBlankLine(lines[i])}

Least(S) == CHOOSE i \in S : \A j \in S : i <= j

\* C28, amended: content that is empty or all whitespace is returned as it
\* is.  Of any other content stripDateLineFromContent returns the lines
\* from some line on, joined again: what it removes are the blank lines at
\* the start and, if the first line that is not blank is the date-string
\* once trimmed, that line and the blank lines behind it.  So content is
\* returned unchanged exactly when its first line is neither blank nor the
\* date-string once trimmed.
C28_StripsLeadingBlankAndDateLines ==
  (probe.kind = "content" /\ probe.fn = "stripDateLineFromContent") =>
    LET content == probe.arg.content
        dateString == probe.arg.dateString
        lines == split(content)
        first == Least(NonBlank(lines))
        rest == {i \in NonBlank(lines) : i > first}
        kept == IF trim(lines[first]) # dateString THEN first
                ELSE IF rest = {} THEN Len(lines) + 1
                ELSE Least(rest)
    IN  IF NonBlank(lines) = {} THEN probe.result = content
        ELSE /\ probe.result = join(SubSeq(lines, kept, Len(lines)))
             /\ probe.result = content <=> kept = 1

\* an indented date line behind a blank line has been stripped together
\* with the blank line that follows it
C28_Witness ==
  /\ probe.kind = "content"
  /\ probe.fn = "stripDateLineFromContent"
  /\ probe.arg.content
       = join(<<<< >>, <<" ">> \o S14, <<" ">>, <<"x">>>>)
  /\ probe.result = <<"x">>

\* C28 as stated: content whose first line that is not blank is not
\* exactly the date-string is returned unchanged, and of content whose
\* first line is the date-string that line and the blank lines behind it
\* are removed.
C28_NoOpWithoutDateLine ==
  (probe.kind = "content" /\ probe.fn = "stripDateLineFromContent") =>
    LET content == probe.arg.content
        dateString == probe.arg.dateString
        lines == split(content)
        rest == {i \in NonBlank(lines) : i > 1}
    IN  /\ (\/ NonBlank(lines) = {}
            \/ lines[Least(NonBlank(lines))] # dateString) =>
              probe.result = content
        /\ lines[1] = dateString =>
              probe.result
                = join(SubSeq(lines,
                              IF rest = {} THEN Len(lines) + 1 ELSE Least(rest),
                              Len(lines)))

\* C29: the suffix of a day 1..31 is st for 1, 21 and 31, nd for 2 and 22,
\* rd for 3 and 23, and th for every other day, 11, 12 and 13 among them.
C29_OrdinalSuffix ==
  (probe.kind = "day" /\ probe.fn = "getOrdinalSuffix") =>
    probe.result
      = (CASE probe.arg \in {1, 21, 31} -> <<"s", "t">>
           [] probe.arg \in {2, 22} -> <<"n", "d">>
           [] probe.arg \in {3, 23} -> <<"r", "d">>
           [] OTHER -> <<"t", "h">>)

\* the suffix of the 12th has been computed
C29_Witness ==
  /\ probe.kind = "day"
  /\ probe.fn = "getOrdinalSuffix"
  /\ probe.arg = 12
  /\ probe.result = <<"t", "h">>

\* the scan timestamp lies less than 5000 ms back (it is 0 while no listing
\* has succeeded since the manager was built or its cache cleared)
WithinWindow == lastScanTime # 0 /\ now - lastScanTime < 5000

\* the step set the timestamp to the time of a listing that succeeded: the
\* directory is there and the cache holds the notes in it
ListingStamped ==
  /\ lastScanTime' = now
  /\ vault'[path'].kind = "folder"
  /\ CacheMatchesDirectory(World')

\* what a step does to the timestamp, and what a scanDirectory(false) does
FreshnessStep ==
  /\ lastScanTime' # lastScanTime =>
       \/ lastScanTime' = 0 /\ cache' = << >>
       \/ ListingStamped
  /\ (now' = now /\ lastOp'.op = "scanDirectory" /\ ~lastOp'.force) =>
       IF WithinWindow
         THEN /\ lastOp'.outcome = "cache"
              /\ UNCHANGED <<vault, cache, lastScanTime>>
       ELSE IF vault[path].kind = "folder"
         THEN lastOp'.outcome = "listed" /\ ListingStamped
       ELSE /\ lastOp'.outcome = "missing"
            /\ UNCHANGED <<vault, cache, lastScanTime>>

\* C30: scanDirectory(false) answers with the keys of the cache, listing
\* nothing, exactly when the last successful listing lies less than
\* 5000 ms back; otherwise (5000 ms or more, or no successful listing
\* since the manager was built or its cache cleared) it looks the
\* directory up and lists it if it is there.  The timestamp changes only
\* when a listing has succeeded, to the time of that listing, or when
\* clearCache resets it.
C30_FreshnessWindow ==
  /\ [](scanDirectory(World, now, FALSE).how = "cache" <=> WithinWindow)
  /\ [](WithinWindow =>
         /\ scanDirectory(World, now, FALSE).dates = MapKeys(cache)
         /\ scanDirectory(World, now, FALSE).w = World)
  /\ [][FreshnessStep]_vars

\* scanDirectory(false) has answered from a cache that holds a note, half
\* a window after the last listing
C30_Witness ==
  /\ lastOp.op = "scanDirectory"
  /\ ~lastOp.force
  /\ lastOp.outcome = "cache"
  /\ cache # << >>
  /\ now - lastScanTime = TickMs

\* C31: an editor that destroyEditor has unloaded has its last content in
\* its file, no timer set and no save in flight.
C31_DestroyedEditorIsSaved ==
  \A dateString \in ValidArgs :
    (~editors[dateString].open /\ editors[dateString].file # NoFile) =>
      /\ FileHoldsText(dateString)
      /\ ~editors[dateString].saveTimeout
      /\ editors[dateString].writing = << >>

\* what C32 asks of a step of the editor of dateString: a change leaves
\* one timer set, the one saveTimeout names; a timer that fires while the
\* editor is open leaves none set, and the save it starts for a dirty
\* editor writes the content of the last change
CoalescedStep(dateString) ==
  /\ (/\ editors[dateString].open
      /\ editors'[dateString].open
      /\ editors'[dateString].text # editors[dateString].text) =>
        /\ editors'[dateString].timers = 1
        /\ editors'[dateString].saveTimeout
  /\ (/\ editors'[dateString].open
      /\ editors'[dateString].timers < editors[dateString].timers) =>
        /\ editors'[dateString].timers = 0
        /\ editors[dateString].isDirty =>
             editors'[dateString].writing
               = Append(editors[dateString].writing, editors[dateString].text)

\* C32: at most one save timer of an editor is set at any time, the one
\* its last change set: every change clears the timer set before it, so
\* the changes made before the timer fires are followed by one
\* timer-driven save, of the content of the last change.
C32_OneTimerAfterLastChange ==
  /\ [](\A dateString \in ValidArgs :
          /\ editors[dateString].timers <= 1
          /\ editors[dateString].timers = 1 <=> editors[dateString].saveTimeout)
  /\ [][\A dateString \in ValidArgs : CoalescedStep(dateString)]_vars

\* two changes (to "b" and back to the file's "a") have been made with no
\* save between them, and one timer is set
C32_Witness ==
  /\ editors[S10].open
  /\ editors[S10].isDirty
  /\ editors[S10].timers = 1
  /\ editors[S10].writing = << >>
  /\ editors[S10].text = "a"
  /\ FileHoldsText(S10)

\* C33: once paging has ended (hasMoreToLoad is false) the view shows
\* every note of the directory dated today or earlier, each of them once.
C33_PagingShowsEveryNoteOnce ==
  (view.opened /\ ~view.hasMoreToLoad) =>
    /\ \A i, j \in 1..Len(view.notes) :
         view.notes[i].dateString = view.notes[j].dateString => i = j
    /\ Range(DateStringsOf(view.notes))
         = {s \in DatedNotesIn(vault, path) : LexLeq(s, TodayString)}

\* C34: scanDirectory(false), called less than 5000 ms after a
\* scanDirectory(true) with nothing done in between, returns the
\* date-strings the forced scan returned, and these are the keys of the
\* cache, also when the forced scan found no directory and returned none.
C34_ScanAfterForcedScanAgrees ==
  \A elapsed \in {0, TickMs} :
    LET forced == scanDirectory(World, now, TRUE)
        after == scanDirectory(forced.w, now + elapsed, FALSE)
    IN  /\ Range(after.dates) = Range(forced.dates)
        /\ Range(after.dates) = Range(MapKeys(after.w.cache))

C36_LoadedNotesCarryFile ==
  \A c \in CallIds :
    calls[c].op = "loadNotes" =>
      \A i \in 1..Len(calls[c].notes) : calls[c].notes[i].file # NoFile

\* C37: at most one page load of the view is in flight at any time.
C37_OnePageLoadInFlight ==
  Cardinality({c \in CallIds : calls[c].pc = "loading"}) <= 1

\* what a failed createNote left of the cache: nothing changed
CreateFailureKeepsCache(w, r) == ~r.success => r.w.cache = w.cache

\* what a deleteNote whose vault.delete threw left: the cache entry, and
\* the file it names in storage
DeleteFailureKeepsNote(w, r, dateString) ==
  (~r.success /\ r.error = "thrown") =>
    /\ MapHas(r.w.cache, dateString)
    /\ MapGet(r.w.cache, dateString) = MapGet(w.cache, dateString)
    /\ AbstractFileAt(r.w.vault, MapGet(w.cache, dateString).dir,
                      MapGet(w.cache, dateString).name) = "file"

\* C38: a createNote that fails leaves the cache as it was; a deleteNote
\* whose vault.delete fails keeps the cache entry and the file is still in
\* storage.
C38_FailedMutationKeepsCacheAndFile ==
  \A dateString \in LifeArgs :
    /\ \A io \in {"none", "createFolder", "create"} :
         CreateFailureKeepsCache(World, createNote(World, dateString, "a", io))
    /\ \A io \in {"none", "delete"} :
         DeleteFailureKeepsNote(World, deleteNote(World, dateString, io),
                                dateString)

\* the call that answered r from the world w left the vault and the
\* configured path alone, and the cache and the scan timestamp as well when
\* its scan was answered from the cache
StorageKept(w, r) ==
  /\ r.w.vault = w.vault
  /\ r.w.path = w.path
  /\ r.how = "cache" => r.w = w

\* C39: loadNotes and noteExists never create, modify or delete a file or
\* a directory; they change at most the cache and the scan timestamp, and
\* only by a rescan.  (readNote assigns nothing: ReadNote leaves every
\* variable of the manager unchanged.)
C39_ReadsLeaveStorageAlone ==
  /\ \A count \in 1..MaxCount, startDate \in CursorDates :
       StorageKept(World, loadNotes(World, now, count, startDate, NoString))
  /\ \A dateString \in LifeArgs :
       StorageKept(World, noteExists(World, now, dateString))

\* loadNotes has run with the directory missing, and it is still missing
C39_Witness ==
  /\ lastOp.op = "loadNotes"
  /\ vault[path].kind = "absent"
  /\ now > 0

====
